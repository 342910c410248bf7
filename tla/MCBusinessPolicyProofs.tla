----------------------- MODULE MCBusinessPolicyProofs -----------------------
(***************************************************************************)
(* Every property of MCBusinessPolicy, for every price list, every clock   *)
(* and every length of an hour and of a rounding: the figures of           *)
(* business-policy.ts, each compared with a definition of its own.         *)
(***************************************************************************)
EXTENDS MCBusinessPolicy, BusinessPolicyProofs, FiniteSetTheorems

(* What every state of a run keeps: a rental of the price list, and a time *)
(* the clock shows. It is inductive, and enough for the theorems below:    *)
(* what they say of a state, the figures of business-policy.ts say of any  *)
(* rental and any time.                                                    *)
Priced == rental \in Rentals /\ now \in Clock

(* The types of that state, from the price list and the clock.             *)
LEMMA PricedTyped ==
  ASSUME Priced
  PROVE  /\ rental.perHour \in Nat /\ rental.perDay \in Nat /\ rental.value \in Nat
         /\ rental.from \in Int /\ rental.to \in Int /\ rental.from < rental.to
         /\ now \in Int
  BY RentalsArePriced, ClockRuns DEF Priced

(* A tick changes the time only, and to one that the clock shows.          *)
LEMMA AlwaysPriced == Spec => []Priced
<1>1. Init => Priced
  BY ClockRuns DEF Init, Priced
<1>2. Priced /\ [Tick]_vars => Priced'
  BY DEF Priced, Tick, vars
<1> QED
  BY <1>1, <1>2, PTL DEF Spec

-----------------------------------------------------------------------------
(* REFUND_TIERS, spelt out.                                                *)
LEMMA Tiers ==
  /\ DOMAIN REFUND_TIERS = {1, 2}
  /\ REFUND_TIERS[1] = [minHoursBeforeStart |-> 24, percentage |-> 100]
  /\ REFUND_TIERS[2] = [minHoursBeforeStart |-> 6, percentage |-> 50]
  BY DEF REFUND_TIERS

(* The tier that decides: the first, else the second, else none.           *)
LEMMA TierDecides ==
  ASSUME NEW left \in Int
  PROVE  LET pay == calculateRefundPercentage(left, FALSE)
             Reached(i) == left >= REFUND_TIERS[i].minHoursBeforeStart * HOUR_MS IN
         \/ Reached(1) /\ (pay = 100)
         \/ ~Reached(1) /\ Reached(2) /\ (pay = 50)
         \/ ~Reached(1) /\ ~Reached(2) /\ (pay = 0)
<1> DEFINE first == left >= REFUND_TIERS[1].minHoursBeforeStart * HOUR_MS
           second == left >= REFUND_TIERS[2].minHoursBeforeStart * HOUR_MS
           pay == calculateRefundPercentage(left, FALSE)
<1>1. pay = CASE first -> 100
              [] ~first /\ second -> 50
              [] OTHER -> 0
  BY Tiers DEF calculateRefundPercentage
<1> HIDE DEF first, second, pay
<1>2. \/ first /\ (pay = 100)
      \/ ~first /\ second /\ (pay = 50)
      \/ ~first /\ ~second /\ (pay = 0)
  BY <1>1
<1> QED BY <1>2 DEF first, second, pay

(* calculateRefundPercentage stops at the first tier reached, and that is  *)
(* the best one still open: whoever cancels gets its percentage, no more   *)
(* and no less, and nothing when no tier is open, whatever the length of   *)
(* an hour.                                                                *)
THEOREM BestTierAlwaysApplies == Spec => []BestTierApplies
<1>1. ASSUME Priced
      PROVE  BestTierApplies
  <2> DEFINE left == rental.from - now
             pay == calculateRefundPercentage(left, FALSE)
             Reached(i) == left >= REFUND_TIERS[i].minHoursBeforeStart * HOUR_MS
             open == {REFUND_TIERS[i].percentage : i \in {j \in DOMAIN REFUND_TIERS : Reached(j)}}
  <2>1. left \in Int
    BY <1>1, PricedTyped
  <2> HIDE DEF left
  <2>2. \/ Reached(1) /\ (pay = 100)
        \/ ~Reached(1) /\ Reached(2) /\ (pay = 50)
        \/ ~Reached(1) /\ ~Reached(2) /\ (pay = 0)
    BY <2>1, TierDecides
  <2> HIDE DEF pay, Reached
  <2>3. open \subseteq {100, 50} /\ (100 \in open <=> Reached(1))
        /\ (50 \in open <=> Reached(2))
    BY Tiers
  <2> HIDE DEF open
  <2>4. pay \in open \union {0} /\ \A p \in open \union {0} : pay >= p
    BY <2>2, <2>3
  <2> QED BY <2>4 DEF BestTierApplies, left, pay, open, Reached
<1> QED
  BY <1>1, AlwaysPriced, PTL

-----------------------------------------------------------------------------
(* calculateLostDeviceDebt: however late a device is when it is written    *)
(* off, the deposit kept and the debt come to no more than one and a half  *)
(* times its value, and to its value at least, whether it is the device    *)
(* the deposit was taken for or an equivalent one swapped in.  From        *)
(* LostClaimIsBounded, whose proviso SwappedDepositIsWithinClaim supplies, *)
(* for the fee calculateLateFee charges.                                   *)
THEOREM LostClaimIsAlwaysCapped == Spec => []LostClaimIsCapped
<1>1. ASSUME Priced
      PROVE  LostClaimIsCapped
  <2> DEFINE deposit == calculateDeposit(rental.value)
  <2>1. deposit \in Nat
    BY <1>1, PricedTyped, DepositIsWithinClaim
  <2>2. ASSUME NEW value \in Nat, isEquivalentValue(rental.value, value)
        PROVE  LET lateFee == calculateLateFee(now, rental.to, rental.perDay, value)
                   debt == calculateLostDeviceDebt(value, deposit, lateFee) IN
               /\ 2 * (deposit + debt.amountOwed) <= 3 * value
               /\ deposit + debt.amountOwed >= value
    <3> DEFINE lateFee == calculateLateFee(now, rental.to, rental.perDay, value)
               debt == calculateLostDeviceDebt(value, deposit, lateFee)
               claim == Ratio(value, LOST_DEVICE_MAX_CLAIM_RATIO)
    <3>1. deposit <= claim
      BY <1>1, <2>2, PricedTyped, SwappedDepositIsWithinClaim
    <3>2. lateFee \in Nat
      <4>1. lateFee \in 0 .. value
        BY <1>1, PricedTyped, LateFeeIsWithinValue
      <4> QED BY <4>1
    <3>3. 2 * claim <= 3 * value /\ claim \in Nat
      BY DEF Ratio, LOST_DEVICE_MAX_CLAIM_RATIO
    <3> HIDE DEF deposit, lateFee, claim
    <3>4. /\ debt.amountOwed \in Nat
          /\ value <= deposit + debt.amountOwed
          /\ deposit + debt.amountOwed <= claim
      BY <2>1, <3>1, <3>2, LostClaimIsBounded DEF claim
    <3> HIDE DEF debt
    <3>5. 2 * (deposit + debt.amountOwed) <= 3 * value /\ deposit + debt.amountOwed >= value
      BY <2>1, <3>3, <3>4
    <3> QED BY <3>5 DEF debt, lateFee
  <2> QED BY <2>2 DEF LostClaimIsCapped, Deposit
<1> QED
  BY <1>1, AlwaysPriced, PTL

-----------------------------------------------------------------------------
(* Products with a positive factor keep the order, and give it back.       *)
LEMMA TimesKeepOrder ==
  ASSUME NEW d \in Nat \ {0}, NEW i \in Int, NEW j \in Int
  PROVE  /\ d * i \in Int /\ d * j \in Int
         /\ d * (i + 1) = d * i + d
         /\ i <= j => d * i <= d * j
         /\ d * i < d * j => i < j
  <1>1. d * i \in Int /\ d * j \in Int /\ d * (j - i) = d * j - d * i
    OBVIOUS
  <1>2. i <= j => d * (j - i) >= 0
    OBVIOUS
  <1>3. j <= i => d * (j - i) <= 0
    <2>1. j <= i => d * (i - j) >= 0
      OBVIOUS
    <2>2. d * (i - j) = -(d * (j - i)) /\ d * (j - i) \in Int
      OBVIOUS
    <2> QED BY <2>1, <2>2
  <1>4. d * (i + 1) = d * i + d
    OBVIOUS
  <1> QED BY <1>1, <1>2, <1>3, <1>4

(* The days of d units begun between to and t, counted one by one, are     *)
(* what CeilDiv says.                                                      *)
LEMMA DaysBegunAre ==
  ASSUME NEW d \in Nat \ {0}, NEW to \in Int, NEW t \in Int, t <= to + 100 * d
  PROVE  Cardinality({i \in 0 .. 99 : to + i * d < t})
           = IF t <= to THEN 0 ELSE CeilDiv(t - to, d)
  <1> DEFINE S == {i \in 0 .. 99 : to + i * d < t}
             c == CeilDiv(t - to, d)
  <1>1. ASSUME t <= to PROVE Cardinality(S) = 0
    <2>1. \A i \in 0 .. 99 : i * d >= 0 /\ i * d \in Int
      OBVIOUS
    <2>2. S = {}
      BY <1>1, <2>1
    <2> QED BY <2>2, FS_EmptySet
  <1>2. ASSUME t > to PROVE Cardinality(S) = c
    <2>1. c \in Int /\ t - to <= d * c /\ d * c < t - to + d
      BY CeilingBounds
    <2> HIDE DEF c
    <2>2. c > 0
      <3>1. d * 0 < d * c
        BY <2>1, <1>2
      <3> QED BY <3>1, <2>1, TimesKeepOrder
    <2>3. c <= 100
      <3>1. d * c < d * 101
        BY <2>1
      <3> QED BY <3>1, <2>1, TimesKeepOrder
    <2>4. ASSUME NEW i \in 0 .. 99
          PROVE  to + i * d < t <=> i <= c - 1
      <3>1. i * d = d * i /\ d * i \in Int
        OBVIOUS
      <3>2. ASSUME i <= c - 1 PROVE d * i < t - to
        <4>1. d * (i + 1) <= d * c /\ d * (i + 1) = d * i + d /\ d * c \in Int
          BY <2>1, <3>2, TimesKeepOrder
        <4> QED BY <4>1, <3>1, <2>1
      <3>3. ASSUME i > c - 1 PROVE d * i >= t - to
        <4>1. d * c <= d * i /\ d * c \in Int
          BY <2>1, <3>3, TimesKeepOrder
        <4> QED BY <4>1, <3>1, <2>1
      <3> QED BY <3>1, <3>2, <3>3, <2>1
    <2>5. S = 0 .. (c - 1)
      BY <2>1, <2>2, <2>3, <2>4
    <2>6. Cardinality(0 .. (c - 1)) = c
      BY <2>1, <2>2, FS_Interval
    <2> QED BY <2>5, <2>6
  <1> HIDE DEF S
  <1>3. Cardinality(S) = IF t <= to THEN 0 ELSE c
    BY <1>1, <1>2
  <1> QED BY <1>3 DEF S

(* n days late cost a fifth of a day's price times 1 + 2 + ... + n, which  *)
(* is n(n+1)/2, up to the value of the device.                             *)
LEMMA ProgressiveFee ==
  ASSUME NEW n \in Nat, NEW price \in Nat, price % 100 = 0, NEW value \in Nat
  PROVE  calculateLateFeeForDays(n, price, value)
           = Least((price * 20 * n * (n + 1)) \div 200, value)
  <1>1. PICK fifth \in Nat : price = 5 * fifth
    <2>1. price = 5 * (price \div 5) /\ price \div 5 \in Nat
      OBVIOUS
    <2> QED BY <2>1
  <1>2. PICK total : /\ DayFees(total, n, price)
                     /\ calculateLateFeeForDays(n, price, value) = Least(total[n], value)
    BY LateFeeIsSum
  <1>3. 2 * total[n] = fifth * (n * (n + 1)) /\ total[n] \in Nat
    BY <1>1, <1>2, FeesAreProgressive, FeesAreAmounts
  <1> DEFINE q == total[n]
             m == fifth * (n * (n + 1))
  <1>4. price * 20 * n * (n + 1) = 100 * m
    <2> DEFINE k == n + 1
    <2>1. k \in Nat
      OBVIOUS
    <2> HIDE DEF k
    <2>2. 5 * fifth * 20 * n * k = 100 * (fifth * (n * k))
      BY <2>1
    <2> QED BY <2>2, <1>1 DEF k
  <1>5. q \in Nat /\ 100 * m = 200 * q
    BY <1>3
  <1> HIDE DEF q, m
  <1>6. (200 * q) \div 200 = q
    BY <1>5
  <1> QED BY <1>2, <1>4, <1>5, <1>6 DEF q

(* calculateLateFee charges the sum of that progression over the days      *)
(* begun since the expected end, at every time of the clock and for every  *)
(* rental of the list: the loop, its rounding up to whole days and its cap *)
(* together give the closed form.                                          *)
THEOREM LateFeeAlwaysProgressive == Spec => []LateFeeIsProgressive
<1>1. ASSUME Priced
      PROVE  LateFeeIsProgressive
  <2> DEFINE to == rental.to
             price == rental.perDay
             value == rental.value
             c == CeilDiv(now - to, DAY_MS)
  <2>1. to \in Int /\ now \in Int /\ price \in Nat /\ price % 100 = 0 /\ value \in Nat
        /\ now <= to + 100 * DAY_MS
    BY <1>1, PricedTyped, RentalsArePriced, ClockRuns DEF Priced
  <2>2. DaysBegun = IF now <= to THEN 0 ELSE c
    BY <2>1, DaysHaveUnits, DaysBegunAre DEF DaysBegun
  <2>3. CASE now <= to
    <3>1. DaysBegun = 0 /\ LateFee = 0
      BY <2>2, <2>3 DEF LateFee, calculateLateFee
    <3>2. price * 20 * 0 * (0 + 1) = 0 /\ 0 \div 200 = 0 /\ Least(0, value) = 0
      BY <2>1 DEF Least
    <3> QED BY <3>1, <3>2 DEF LateFeeIsProgressive
  <2>4. CASE now > to
    <3>1. c \in Nat
      BY <2>1, <2>4, DaysLateAreCounted
    <3>2. LateFee = calculateLateFeeForDays(c, price, value)
      BY <2>4, <2>1 DEF LateFee, calculateLateFee
    <3>3. DaysBegun = c
      BY <2>2, <2>4, <2>1
    <3> HIDE DEF c, price, value
    <3>4. LateFee = Least((price * 20 * c * (c + 1)) \div 200, value)
      BY <2>1, <3>1, <3>2, ProgressiveFee
    <3> QED BY <3>3, <3>4 DEF LateFeeIsProgressive, price, value
  <2> QED BY <2>1, <2>3, <2>4
<1> QED
  BY <1>1, AlwaysPriced, PTL

-----------------------------------------------------------------------------
(* Rounding up keeps the order.                                            *)
LEMMA CeilingKeepsOrder ==
  ASSUME NEW n \in Int, NEW m \in Int, n <= m, NEW d \in Nat \ {0}
  PROVE  CeilDiv(n, d) <= CeilDiv(m, d)
  <1> DEFINE a == CeilDiv(n, d)
             b == CeilDiv(m, d)
  <1>1. a \in Int /\ d * a < n + d /\ b \in Int /\ m <= d * b
    BY CeilingBounds
  <1> HIDE DEF a, b
  <1>2. d * (b + 1) = d * b + d /\ d * b \in Int /\ d * a \in Int
    BY <1>1, TimesKeepOrder
  <1>3. d * a < d * (b + 1)
    BY <1>1, <1>2
  <1>4. a < b + 1
    BY <1>1, <1>3, TimesKeepOrder
  <1> QED BY <1>1, <1>4 DEF a, b

(* The price of a rental is an amount.                                     *)
LEMMA PriceIsAnAmount ==
  ASSUME NEW perHour \in Nat, NEW perDay \in Nat, NEW from \in Int, NEW to \in Int, from < to
  PROVE  calculateRentalPrice(perHour, perDay, from, to) \in Nat
  <1> DEFINE hours == CeilDiv(to - from, HOUR_MS)
             days == CeilDiv(to - from, DAY_MS)
  <1>1. \A d \in Nat \ {0} : CeilDiv(to - from, d) \in Nat
    <2> SUFFICES ASSUME NEW d \in Nat \ {0} PROVE CeilDiv(to - from, d) \in Nat
      OBVIOUS
    <2> DEFINE c == CeilDiv(to - from, d)
    <2>1. c \in Int /\ to - from <= d * c
      BY CeilingBounds
    <2> HIDE DEF c
    <2>2. d * 0 < d * c
      BY <2>1
    <2>3. 0 < c
      BY <2>1, <2>2, TimesKeepOrder
    <2> QED BY <2>1, <2>3 DEF c
  <1>2. hours \in Nat /\ days \in Nat
    BY <1>1, HoursHaveUnits, DaysHaveUnits
  <1> HIDE DEF hours, days
  <1>3. perHour * hours \in Nat /\ perDay * days \in Nat
    BY <1>2
  <1> QED BY <1>3 DEF calculateRentalPrice, hours, days

(* One unit of time more does not lower the price: by the hour, by the     *)
(* day, or at the step from 24 hours to two days.                          *)
LEMMA LongerIsDearer ==
  ASSUME NEW perHour \in Nat, NEW perDay \in Nat, 2 * perDay >= 24 * perHour,
         NEW from \in Int, NEW t \in Int, t > from
  PROVE  calculateRentalPrice(perHour, perDay, from, t)
           <= calculateRentalPrice(perHour, perDay, from, t + 1)
  <1> DEFINE h == HOUR_MS
             d == DAY_MS
             n == t - from
             m == t + 1 - from
             hn == CeilDiv(n, h)
             hm == CeilDiv(m, h)
             dn == CeilDiv(n, d)
             dm == CeilDiv(m, d)
             before == calculateRentalPrice(perHour, perDay, from, t)
             after == calculateRentalPrice(perHour, perDay, from, t + 1)
  <1>1. h \in Nat \ {0} /\ d \in Nat \ {0} /\ d = 24 * h
    BY HoursHaveUnits, DaysHaveUnits DEF DAY_MS
  <1>2. n \in Int /\ m \in Int /\ m = n + 1
    OBVIOUS
  <1>3. before = IF n <= d THEN perHour * hn ELSE perDay * dn
    BY <1>1 DEF calculateRentalPrice, HOURLY_PRICING_MAX_HOURS
  <1>4. after = IF m <= d THEN perHour * hm ELSE perDay * dm
    BY <1>1 DEF calculateRentalPrice, HOURLY_PRICING_MAX_HOURS
  <1> HIDE DEF h, d, n, m, before, after
  <1>5. hn \in Int /\ hm \in Int /\ dn \in Int /\ dm \in Int /\ hn <= hm /\ dn <= dm
    <2>1. n <= m
      BY <1>2
    <2>2. hn <= hm /\ dn <= dm
      BY <1>1, <1>2, <2>1, CeilingKeepsOrder
    <2> QED BY <1>1, <1>2, <2>2, CeilingBounds
  <1>6. ASSUME n = d
        PROVE  hn = 24 /\ dm = 2
    <2>1. hn = 24
      BY <1>1, <1>2, <1>6, CeilingIs
    <2>2. dm = 2
      BY <1>1, <1>2, <1>6, CeilingIs
    <2> QED BY <2>1, <2>2
  <1> HIDE DEF hn, hm, dn, dm
  <1>7. perHour * hn <= perHour * hm /\ perDay * dn <= perDay * dm
    <2>1. hm - hn \in Nat /\ dm - dn \in Nat
      BY <1>5
    <2>2. perHour * (hm - hn) \in Nat /\ perDay * (dm - dn) \in Nat
      BY <2>1
    <2>3. /\ perHour * (hm - hn) = perHour * hm - perHour * hn
          /\ perDay * (dm - dn) = perDay * dm - perDay * dn
          /\ perHour * hm \in Int /\ perHour * hn \in Int
          /\ perDay * dm \in Int /\ perDay * dn \in Int
      BY <1>5
    <2> QED BY <2>2, <2>3
  <1>8. ASSUME m <= d PROVE before <= after
    BY <1>1, <1>2, <1>3, <1>4, <1>7, <1>8
  <1>9. ASSUME n > d PROVE before <= after
    BY <1>1, <1>2, <1>3, <1>4, <1>7, <1>9
  <1>10. ASSUME n = d PROVE before <= after
    <2>1. before = perHour * 24 /\ after = perDay * 2
      BY <1>1, <1>2, <1>3, <1>4, <1>6, <1>10
    <2> QED BY <2>1
  <1>11. before <= after
    BY <1>1, <1>2, <1>8, <1>9, <1>10
  <1> QED BY <1>11 DEF before, after

(* calculateRentalPrice: a rental that ends later does not cost less, for  *)
(* every device whose two days cost at least its 24 hours.                 *)
THEOREM LongerNeverCostsLess == Spec => LongerCostsNoLess
<1>1. ASSUME Priced, [Tick]_vars
      PROVE  [now > rental.from /\ 2 * rental.perDay >= 24 * rental.perHour =>
                calculateRentalPrice(rental.perHour, rental.perDay, rental.from, now)
                  <= calculateRentalPrice(rental.perHour, rental.perDay, rental.from, now')]_vars
  <2> SUFFICES ASSUME Tick, now > rental.from, 2 * rental.perDay >= 24 * rental.perHour
               PROVE  calculateRentalPrice(rental.perHour, rental.perDay, rental.from, now)
                        <= calculateRentalPrice(rental.perHour, rental.perDay, rental.from, now')
    BY <1>1 DEF vars
  <2>1. now' = now + 1
    BY DEF Tick
  <2>2. /\ rental.perHour \in Nat /\ rental.perDay \in Nat
        /\ rental.from \in Int /\ now \in Int
    BY <1>1, PricedTyped
  <2> QED BY <2>1, <2>2, LongerIsDearer
<1> QED
  BY <1>1, AlwaysPriced, PTL DEF Spec, LongerCostsNoLess

-----------------------------------------------------------------------------
(* The units of a rental still ahead at time t, counted one by one, are    *)
(* its length less the time used, clamped to the rental as the code clamps *)
(* it.                                                                     *)
LEMMA TimeLeft ==
  ASSUME NEW from \in Int, NEW to \in Int, from < to, NEW t \in Int
  PROVE  Cardinality({u \in from .. to - 1 : t <= u})
           = (to - from) - Least(Greatest(t - from, 0), to - from)
  <1> DEFINE S == {u \in from .. to - 1 : t <= u}
             first == IF t <= from THEN from ELSE t
             left == (to - from) - Least(Greatest(t - from, 0), to - from)
  <1>1. S = first .. (to - 1) /\ first \in Int /\ to - 1 \in Int
    OBVIOUS
  <1>2. left = IF first <= to - 1 THEN (to - 1) - first + 1 ELSE 0
    BY DEF Least, Greatest
  <1> HIDE DEF S, first
  <1>3. Cardinality(S) = left
    BY <1>1, <1>2, FS_Interval
  <1> QED BY <1>3 DEF S

(* A multiple has no remainder.                                            *)
LEMMA MultiplesDivide ==
  ASSUME NEW q \in Int, NEW r \in Nat \ {0}
  PROVE  (q * r) % r = 0
  <1> DEFINE n == q * r
  <1>1. n \in Int /\ r * q = n
    OBVIOUS
  <1> HIDE DEF n
  <1>2. n \div r = q
    BY <1>1, DivisionIs
  <1>3. n % r = n - r * (n \div r)
    BY <1>1
  <1> QED BY <1>1, <1>2, <1>3 DEF n

(* calculateUnusedRentalRefund gives back the unused share of the rent,    *)
(* less than one rounding below it, whenever the rental is ended: before   *)
(* its start, within it or after its end.                                  *)
THEOREM UnusedShareIsAlwaysRefunded == Spec => []UnusedShareIsRefunded
<1>1. ASSUME Priced
      PROVE  UnusedShareIsRefunded
  <2> DEFINE r == REFUND_ROUNDING_VND
             total == rental.to - rental.from
             left == Cardinality({t \in rental.from .. rental.to - 1 : now <= t})
             paid == Total
             unit == total * r
             q == (paid * left) \div unit
  <2>1. /\ rental.from \in Int /\ rental.to \in Int /\ rental.from < rental.to /\ now \in Int
        /\ total \in Nat \ {0} /\ r \in Nat \ {0}
    BY <1>1, PricedTyped, RoundingIsAnAmount
  <2>2. left = total - Least(Greatest(now - rental.from, 0), total)
    BY <2>1, TimeLeft
  <2>3. left \in Nat
    BY <2>1, <2>2 DEF Least, Greatest
  <2>4. paid \in Nat
    BY <1>1, PricedTyped, PriceIsAnAmount DEF Total
  <2> HIDE DEF left
  <2>5. Unused = q * r
    BY <2>1, <2>2 DEF Unused, calculateUnusedRentalRefund
  <2> HIDE DEF paid, total, r
  <2>6. paid * left \in Int /\ unit \in Nat \ {0}
    BY <2>1, <2>3, <2>4
  <2>7. q \in Int /\ unit * q <= paid * left /\ paid * left < unit * q + unit
    BY <2>6, DivisionBounds
  <2> HIDE DEF q
  <2>8. unit * q = (q * r) * total /\ unit * q + unit = (q * r + r) * total
    BY <2>1, <2>7
  <2>9. (q * r) % r = 0
    BY <2>1, <2>7, MultiplesDivide
  <2> QED BY <2>5, <2>7, <2>8, <2>9 DEF UnusedShareIsRefunded, left, paid, total, r
<1> QED
  BY <1>1, AlwaysPriced, PTL

-----------------------------------------------------------------------------
(* The loop of addBusinessDays: how many days one round of it goes ahead,  *)
(* the date it comes to, and the dates of all its rounds.                  *)
Skipped(date) ==
  CHOOSE n \in 1 .. 3 :
    /\ ~isStoreWeekend(date + n * DAY_MS)
    /\ \A m \in 1 .. n - 1 : isStoreWeekend(date + m * DAY_MS)
FollowingDay(date) == date + DAY_MS * Skipped(date)
WorkingDates(result, from, days) ==
  result = [n \in 0 .. days |-> IF n = 0 THEN from ELSE FollowingDay(result[n - 1])]

(* A day of the epoch on which the shop works, as in                       *)
(* DueAfterThreeWorkingDays.                                               *)
Works(day) == (day - 4) % 7 \in 0 .. 4

(* n times 24 hours later it is n days later in the shop's time zone.      *)
LEMMA DaysAdvance ==
  ASSUME NEW date \in Int, NEW n \in Int
  PROVE  /\ storeDayKey(date) \in Int
         /\ storeDayKey(date + n * DAY_MS) = storeDayKey(date) + n
  <1> DEFINE d == DAY_MS
             t == date + STORE_UTC_OFFSET_MS
             q == t \div d
  <1>1. d \in Nat \ {0} /\ t \in Int
    BY DaysHaveUnits, HoursHaveUnits DEF STORE_UTC_OFFSET_MS
  <1>2. storeDayKey(date) = q /\ storeDayKey(date + n * DAY_MS) = (t + n * d) \div d
    <2>1. n * d \in Int
      BY <1>1
    <2>2. date + n * d + STORE_UTC_OFFSET_MS = t + n * d
      BY <1>1, <2>1, HoursHaveUnits DEF STORE_UTC_OFFSET_MS
    <2> QED BY <2>2 DEF storeDayKey
  <1> HIDE DEF d, t
  <1>3. q \in Int /\ d * q <= t /\ t < d * q + d
    BY <1>1, DivisionBounds
  <1> HIDE DEF q
  <1>4. d * (q + n) = d * q + n * d /\ d * q \in Int /\ n * d \in Int
    BY <1>1, <1>3
  <1>5. (t + n * d) \div d = q + n
    <2> DEFINE u == t + n * d
               p == q + n
    <2>1. u \in Int /\ p \in Int /\ d * p <= u /\ u < d * p + d
      BY <1>1, <1>3, <1>4
    <2> HIDE DEF u, p
    <2>2. u \div d = p
      BY <1>1, <2>1, DivisionIs
    <2> QED BY <2>2 DEF u, p
  <1> QED BY <1>2, <1>3, <1>5

(* isStoreWeekend's count of the days of the week is that of Works, and no *)
(* three days in a row are free.                                           *)
LEMMA WeekHasFiveDays ==
  ASSUME NEW day \in Int
  PROVE  /\ Works(day) <=> (day + 4) % 7 \notin {0, 6}
         /\ Works(day + 1) \/ Works(day + 2) \/ Works(day + 3)
  BY DEF Works

(* isStoreWeekend, n days after a date.                                    *)
LEMMA WeekendIs ==
  ASSUME NEW date \in Int, NEW n \in Int
  PROVE  isStoreWeekend(date + n * DAY_MS) <=> ~Works(storeDayKey(date) + n)
  <1>1. storeDayKey(date) + n \in Int
    BY DaysAdvance
  <1> QED BY <1>1, DaysAdvance, WeekHasFiveDays DEF isStoreWeekend

(* One round stops at the first day after the date on which the shop       *)
(* works, three days ahead at most.                                        *)
LEMMA NextWorkingDay ==
  ASSUME NEW date \in Int
  PROVE  LET n == Skipped(date)
             day == storeDayKey(date) IN
         /\ n \in 1 .. 3
         /\ Works(day + n)
         /\ \A m \in 1 .. n - 1 : ~Works(day + m)
  <1> DEFINE day == storeDayKey(date)
             Found(n) == /\ ~isStoreWeekend(date + n * DAY_MS)
                         /\ \A m \in 1 .. n - 1 : isStoreWeekend(date + m * DAY_MS)
             First(n) == Works(day + n) /\ \A m \in 1 .. n - 1 : ~Works(day + m)
  <1>1. \A n \in 1 .. 3 : Found(n) <=> First(n)
    BY WeekendIs
  <1>2. \E n \in 1 .. 3 : First(n)
    <2>1. Works(day + 1) \/ Works(day + 2) \/ Works(day + 3)
      BY DaysAdvance, WeekHasFiveDays
    <2>2. CASE Works(day + 1)
      <3>1. First(1)
        BY <2>2
      <3> QED BY <3>1
    <2>3. CASE ~Works(day + 1) /\ Works(day + 2)
      <3>1. \A m \in 1 .. 2 - 1 : m = 1
        OBVIOUS
      <3>2. First(2)
        BY <2>3, <3>1
      <3> QED BY <3>2
    <2>4. CASE ~Works(day + 1) /\ ~Works(day + 2) /\ Works(day + 3)
      <3>1. \A m \in 1 .. 3 - 1 : m = 1 \/ m = 2
        OBVIOUS
      <3>2. First(3)
        BY <2>4, <3>1
      <3> QED BY <3>2
    <2> QED BY <2>1, <2>2, <2>3, <2>4
  <1>3. Skipped(date) = CHOOSE n \in 1 .. 3 : Found(n)
    BY DEF Skipped
  <1> HIDE DEF Found, First
  <1>4. \E n \in 1 .. 3 : Found(n)
    BY <1>1, <1>2
  <1>5. Skipped(date) \in 1 .. 3 /\ Found(Skipped(date))
    BY <1>3, <1>4
  <1> QED BY <1>1, <1>5 DEF First

(* It stops at the same time of that day.                                  *)
LEMMA FollowingDayIs ==
  ASSUME NEW date \in Int
  PROVE  LET n == Skipped(date) IN
         /\ FollowingDay(date) = date + n * DAY_MS
         /\ FollowingDay(date) \in Int
         /\ storeDayKey(FollowingDay(date)) = storeDayKey(date) + n
  <1> DEFINE n == Skipped(date)
             d == DAY_MS
  <1>1. n \in Int /\ d \in Nat
    BY NextWorkingDay, DaysHaveUnits
  <1> HIDE DEF n, d
  <1>2. d * n = n * d /\ n * d \in Int
    BY <1>1
  <1>3. FollowingDay(date) = date + n * d
    BY <1>2 DEF FollowingDay, n, d
  <1>4. storeDayKey(date + n * d) = storeDayKey(date) + n
    BY <1>1, DaysAdvance DEF d
  <1> QED BY <1>2, <1>3, <1>4 DEF n, d

(* Three rounds make the due date of a refund.                             *)
LEMMA ThreeDatesAhead ==
  ASSUME NEW from \in Int
  PROVE  depositRefundDueAt(from) = FollowingDay(FollowingDay(FollowingDay(from)))
  <1> DEFINE Rule(result) == WorkingDates(result, from, 3)
             one == FollowingDay(from)
             two == FollowingDay(one)
             three == FollowingDay(two)
             some == [n \in 0 .. 3 |-> IF n = 0 THEN from ELSE IF n = 1 THEN one
                                         ELSE IF n = 2 THEN two ELSE three]
             dates == CHOOSE result : Rule(result)
  <1>1. Rule(some)
    <2>1. some[0] = from /\ some[1] = one /\ some[2] = two /\ some[3] = three
      OBVIOUS
    <2>2. \A n \in 0 .. 3 :
            some[n] = IF n = 0 THEN from ELSE FollowingDay(some[n - 1])
      <3> HIDE DEF some
      <3>1. \A n \in 0 .. 3 : n = 0 \/ (n = 1 /\ n - 1 = 0) \/ (n = 2 /\ n - 1 = 1)
                                    \/ (n = 3 /\ n - 1 = 2)
        OBVIOUS
      <3> QED BY <2>1, <3>1
    <2>3. some = [n \in 0 .. 3 |-> IF n = 0 THEN from ELSE FollowingDay(some[n - 1])]
      <3>1. some = [n \in 0 .. 3 |-> some[n]]
        OBVIOUS
      <3> HIDE DEF some
      <3> QED BY <2>2, <3>1
    <2> QED BY <2>3 DEF WorkingDates
  <1>2. depositRefundDueAt(from) = dates[3]
    BY DEF depositRefundDueAt, DEPOSIT_REFUND_BUSINESS_DAYS, addBusinessDays, WorkingDates,
           FollowingDay, Skipped
  <1> HIDE DEF some, dates
  <1>3. Rule(dates)
    <2> HIDE DEF Rule
    <2> QED BY <1>1 DEF dates
  <1>4. dates = [n \in 0 .. 3 |-> IF n = 0 THEN from ELSE FollowingDay(dates[n - 1])]
    BY <1>3 DEF WorkingDates
  <1>5. /\ dates[0] = from
        /\ dates[1] = FollowingDay(dates[0])
        /\ dates[2] = FollowingDay(dates[1])
        /\ dates[3] = FollowingDay(dates[2])
    BY <1>4
  <1> QED BY <1>2, <1>5

(* depositRefundDueAt: the due date is a working day, a whole number of    *)
(* days after the return, and exactly three days on which the shop works   *)
(* lie in between, itself included; at whatever time of whatever day the   *)
(* device comes back, the offset of the shop's time zone included.         *)
THEOREM DueAlwaysAfterThreeWorkingDays == Spec => []DueAfterThreeWorkingDays
<1>1. ASSUME Priced
      PROVE  DueAfterThreeWorkingDays
  <2> DEFINE one == FollowingDay(now)
             two == FollowingDay(one)
             three == FollowingDay(two)
             i == Skipped(now)
             j == Skipped(one)
             k == Skipped(two)
             day == storeDayKey(now)
             d == DAY_MS
  <2>1. now \in Int /\ day \in Int /\ d \in Nat \ {0}
    BY <1>1, PricedTyped, DaysHaveUnits, DaysAdvance
  <2>2. i \in 1 .. 3 /\ Works(day + i) /\ \A m \in 1 .. i - 1 : ~Works(day + m)
    BY <2>1, NextWorkingDay
  <2>3. one = now + i * d /\ one \in Int /\ storeDayKey(one) = day + i
    BY <2>1, FollowingDayIs
  <2> HIDE DEF one, i
  <2>4. j \in 1 .. 3 /\ Works(day + i + j) /\ \A m \in 1 .. j - 1 : ~Works(day + i + m)
    BY <2>3, NextWorkingDay
  <2>5. two = one + j * d /\ two \in Int /\ storeDayKey(two) = day + i + j
    BY <2>3, FollowingDayIs
  <2> HIDE DEF two, j
  <2>6. k \in 1 .. 3 /\ Works(day + i + j + k) /\ \A m \in 1 .. k - 1 : ~Works(day + i + j + m)
    BY <2>5, NextWorkingDay
  <2>7. three = two + k * d /\ three \in Int /\ storeDayKey(three) = day + i + j + k
    BY <2>5, FollowingDayIs
  <2>8. depositRefundDueAt(now) = three
    BY <2>1, ThreeDatesAhead DEF one, two
  <2> HIDE DEF three, k, day, d
  <2>9. (three - now) % d = 0
    <3>1. three - now = (i + j + k) * d
      <4>1. i * d \in Int /\ j * d \in Int /\ k * d \in Int
        BY <2>1, <2>2, <2>4, <2>6
      <4>2. (i + j + k) * d = i * d + j * d + k * d
        BY <2>1, <2>2, <2>4, <2>6
      <4> QED BY <4>1, <4>2, <2>1, <2>3, <2>5, <2>7
    <3>2. i + j + k \in Int
      BY <2>2, <2>4, <2>6
    <3> QED BY <2>1, <3>1, <3>2, MultiplesDivide
  <2>10. {x \in (day + 1) .. (day + i + j + k) : Works(x)}
           = {day + i, day + i + j, day + i + j + k}
    <3>1. \A x \in (day + 1) .. (day + i + j + k) :
            \/ x - day \in 1 .. i - 1 \/ x = day + i
            \/ x - day - i \in 1 .. j - 1 \/ x = day + i + j
            \/ x - day - i - j \in 1 .. k - 1 \/ x = day + i + j + k
      BY <2>1, <2>2, <2>4, <2>6
    <3>2. \A x \in Int : /\ x = day + (x - day)
                         /\ x = day + i + (x - day - i)
                         /\ x = day + i + j + (x - day - i - j)
      BY <2>1, <2>2, <2>4, <2>6
    <3>3. \A x \in (day + 1) .. (day + i + j + k) :
            Works(x) => x \in {day + i, day + i + j, day + i + j + k}
      BY <2>1, <2>2, <2>4, <2>6, <3>1, <3>2
    <3>4. {day + i, day + i + j, day + i + j + k} \subseteq (day + 1) .. (day + i + j + k)
      BY <2>1, <2>2, <2>4, <2>6
    <3> QED BY <3>3, <3>4, <2>2, <2>4, <2>6
  <2>11. Cardinality({day + i, day + i + j, day + i + j + k}) = 3
    <3> DEFINE a == day + i
               b == day + i + j
               c == day + i + j + k
    <3>1. a # b /\ a # c /\ b # c
      BY <2>1, <2>2, <2>4, <2>6
    <3> HIDE DEF a, b, c
    <3>2. IsFiniteSet({a}) /\ Cardinality({a}) = 1
      BY FS_Singleton
    <3>3. IsFiniteSet({a} \cup {b}) /\ Cardinality({a} \cup {b}) = 2
      BY <3>1, <3>2, FS_AddElement
    <3>4. Cardinality(({a} \cup {b}) \cup {c}) = 3
      BY <3>1, <3>3, FS_AddElement
    <3>5. ({a} \cup {b}) \cup {c} = {a, b, c}
      OBVIOUS
    <3> QED BY <3>4, <3>5 DEF a, b, c
  <2>12. /\ (now + 7 * HOUR_MS) \div DAY_MS = day
         /\ (three + 7 * HOUR_MS) \div DAY_MS = day + i + j + k
    BY <2>7 DEF storeDayKey, STORE_UTC_OFFSET_MS, day
  <2> QED BY <2>6, <2>8, <2>9, <2>10, <2>11, <2>12 DEF DueAfterThreeWorkingDays, Works, d
<1> QED
  BY <1>1, AlwaysPriced, PTL
=============================================================================
