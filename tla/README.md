# TechRent in TLA+

A verification project for TechRent, a shop that rents out devices: a NestJS
backend over Postgres (Prisma) and Redis (BullMQ), and a Next.js frontend.  The
modules model the backend's logic as it is written; paths below are relative to
`src/backend/src/` unless they start with `src/`.

## 1. The system

Almost every handler of the backend has one shape: read rows, decide, await
other things (Redis, an image upload, another query), and then write with an
UPDATE by id that does not look at the status again.  Postgres runs at READ
COMMITTED.  Everything that goes wrong between the reading and the writing is
caught, if at all, by a row lock, a constraint or a condition inside an UPDATE.
The project is about these places.

| Component | State | Operations | Interacts with |
|---|---|---|---|
| Booking calendar (`bookings/bookings.service.ts`) | `bookings`, `devices.status` | create, confirm, expire, cancel, start, confirmReturn | every component below |
| Issue reports (`bookings/booking-issues.service.ts`) | `device_issue_reports`, booking, device | report, resolve as swap, early end or customer fault | calendar (row locks), policy |
| Lost devices (`bookings/booking-loss.service.ts`) | `suspectedLostAt`, booking, device | flagSuspectedLost (a job), confirmLost | calendar, policy, users (blacklist) |
| Debts (`bookings/debts.service.ts`) | `debtPaidAmount`, `debt_payments` | collect | calendar (create refuses debtors) |
| Deposit and payment (`payments/payments.service.ts`, `bookings/bookings.processor.ts`) | `payments`, refund status, the TTL job | createPaymentUrl, handleIpn, markDepositRefunded, expireIfStillPending | VNPay, BullMQ, calendar |
| Business policy (`common/business-policy.ts`) | none | prices, fees, refunds, due dates | bookings, issues, losses, contracts |
| Maintenance tickets (`maintenance/maintenance.service.ts`) | `maintenance`, `devices.status` | create, updateStatus | calendar |
| Devices (`devices/devices.service.ts`) | `devices` | create, update, images, remove | cache, calendar |
| Device list cache (`devices/devices-cache.service.ts`) | Redis keys and their index, in-flight loads, a generation | getOrLoad, invalidateAll | devices, bookings, reviews |
| Reviews (`reviews/reviews.service.ts`) | `reviews`, `devices.avgRating` | create, update, remove, moderate | cache |
| Sessions (`auth/auth.service.ts`, `src/frontend/src/lib/api-client.ts`) | refresh token hash, token blacklist | login, refresh, logout, password changes | users, Redis |
| Social sign-in (`auth/social/social-auth.service.ts`) | linked accounts, one-time state, ticket and code | callback, register, exchange, link, unlink | sessions |
| Realtime rooms (`realtime/realtime.gateway.ts`) | room and user of each socket | authenticate, logout, emit | notifications |
| Notifications, contracts, uploads, mail, search, policies, AI relay | rows written after the fact, text, files | | |

What is hard, and what makes a component correct:

* **Calendar.**  Creations, stale confirms and starts, swaps and returns race for
  one device and one period.  Correct: no device is promised twice; what was
  checked under a lock holds at the commit; nobody waits for ever.
* **Deposit.**  Two stores without a transaction around them, a webhook that is
  repeated, a job that runs while it is being removed.  Correct: no refund
  without a deposit, no paid booking forgotten, no booking revived, no unpaid
  booking kept.
* **Policy.**  Limits, rounding, the shop's time zone.  Correct: equal to the
  written rules at every limit, monotone where the rules are.
* **Settlement** (reports, losses, debts, refunds).  Correct: each deduction is
  taken once, a debt is never over-collected, a deposit is given back once.
* **Cache.**  Loads overlap invalidations.  Correct: what was read before a
  change is not served after its invalidation.
* **Reviews.**  Correct: the stored rating is that of the visible reviews.
* **Sessions.**  Correct: a token that was used or revoked stays so; the last
  way to sign in cannot be removed.

`PROJECT.json` lists the hazards one by one, each at its line.

## 2. Plan

| # | Module | Status |
|---|---|---|
| 1 | `SlotLedger` (abstract), `SlotReservation` (detailed), proofs | done |
| 2 | `DepositPayment`, proofs | done |
| 3 | `BusinessPolicy`, proofs | done |
| 4 | `RentalSettlement`: reports, losses, debts and refunds of a booking, with the figures of `BusinessPolicy`; proofs | done |
| 5 | `DevicesCache`: single flight, generation, index | done |
| 6 | `Catalogue`: reviews and rating, device form and images, tickets, composed with `DevicesCache`; proofs | done |
| 7 | `Accounts`: passwords, sessions, social sign-in; `ClientSession`: a page and its refresh queue, composed with `Accounts`; proofs | done |
| 8 | Realtime rooms; who may act (roles, blacklist); categories | left out, see section 7 |

Every safety invariant and every action property of the passing runs is a
theorem (section 6).  What is left to prove is of another kind: abstract
specifications of the deposit and of the settlement, as `SlotLedger` is one of
the calendar, and that the code implements them.

## 3. What is modelled

### SlotLedger, SlotReservation

`SlotLedger` is the promise: a set of holdings in which no two overlap on one
device; one is reserved, released or moved at a time.

`SlotReservation` is the code.  A *worker* is a request with a record of what it
has read (`req[w]`): operation, program counter, booking, device, replacement,
period.  `lock` holds the Postgres row locks.  Three shapes of write exist:

| Shape | Code | Actions |
|---|---|---|
| one UPDATE | confirm, expireIfStillPending, cancel | `BeginConfirm`, `BeginExpire`, `BeginCancel`, `WriteStatus`, then `FreeDevice` for a rental in progress |
| batch transaction, booking row first | start, confirmReturn, endEarly, confirmLost | `Begin...`, `LockBooking`, then `Start`, `ConfirmReturn`, `EndEarly`, `ConfirmLost`; `RefuseStart`, `RefuseReturn` when a constraint rolls the batch back |
| interactive transaction, device rows first | createBookingInTransaction, swapDevice | `BeginCreate`, `LockCreateDevice`, `CheckCreate`, `InsertBooking`; `BeginSwap`, `LockSwapFirst`, `LockSwapSecond`, `CheckSwap`, `LockSwapBooking`, `SwapDevice` |

The exclusion constraint is `ConstraintAccepts`, evaluated by every write that
leaves a booking active.  The webhook's conditional update is one action,
`ConfirmAfterPayment`.  `Fail` is an error, a transaction timeout or a restart at
any step; `DeadlockVictim` is Postgres ending one member of a circle of waits.

Abstractions.  Effects become visible at COMMIT, so that statements of one
transaction that only read rows it has locked are one step.  The counter's three
records (rent paid, contract signed, hand-over photos) are one mark, `ready`; an
open report is a mark per booking; the overdue job's flag is a mark.  The admin
form and the tickets are `SetDeviceStatus`, any status at any time.  Who may call
what, the checks on the customer at the start of `create` (blacklist, debt,
identity, times), money, photos, notices and contracts are left out here.

### DepositPayment

One booking from the reservation to the hand-over.  `status` and `refund` are
columns of the booking, `payment` the rows of `payments`, `txn` and `acked`
VNPay's side, `job` the BullMQ job and its processor.  Each `await` separates two
actions: `BeginIpn` reads, `RecordPayment` writes the payment, `RemoveJob` goes
to Redis, `ConfirmPaid` is the conditional UPDATE; confirm and cancel are
`Begin...`, `RemoveJob`, `Write...`; the job is `ExpiryStarts` (pick up and read)
and `ExpiryWrites`.  External behaviour: VNPay repeats a call until it has an
answer and may have two calls in progress; a customer may pay on a page opened
earlier; BullMQ locks a job being processed, so that `job.remove()` throws; a job
has one attempt, and a stalled one runs again.

Abstractions.  `getJob` and `remove` are one step.  Amounts, signatures and
payment dates are left out; which of several successful payments is marked
refunded is a choice.  The percentage of a cancellation is a choice between some
and none.  A confirm refused by the exclusion constraint is a `Fail`.

### BusinessPolicy

The figures as pure operators with the names of the source.  Time is an integer
count of units with `HOUR_MS` of them to the hour; amounts are integers in which
the percentages are exact.  Floating point is not modelled: prices in the shop
are multiples of 1000 dong.  `MCBusinessPolicy` runs a clock past a rental, from
a price list in which prices are round and rentals take some time
(`RentalsArePriced`), and stops within 100 days after the end (`ClockRuns`), since
the reference definition of the late fee counts the days one by one.

### RentalSettlement

What becomes of the money of one rental in progress.  `booking` holds the columns
the settlement writes, `report` the rows of `device_issue_reports`, `returned`
the return inspection, which is unique per booking.  The rows of `debt_payments`
are left out: each is inserted in the transaction that adds its amount to
`debtPaidAmount`, and nothing else is done with them.  A request reads in its `Begin...` action, computes its
figures there, and writes them in a later action, whatever the row has become by
then; this is what the handlers do.  `LockDebt` is the one reading under a row
lock, and every other write waits for it (`BookingIsFree`).

| Code | Actions |
|---|---|
| `report` | `BeginReport`, `CheckReport`, `InsertReport` |
| `resolve`: swap, early end, customer fault | `BeginSwap`, `CheckSwap`, `SwapDevice`; `BeginEndEarly`, `EndEarly`; `BeginCharge`, `ChargeCustomerFault` |
| `confirmReturn` | `BeginReturn`, `ConfirmReturn`, `RefuseReturn` |
| `cancel`, `markDepositRefunded` | `BeginCancel`, `Cancel`; `BeginRefund`, `MarkRefunded` |
| `flagSuspectedLost` (the job) | `BeginFlag`, `Flag`, `NotifySuspicion` |
| `confirmLost` | `BeginConfirmLost`, `PreviewLoss`, `ConfirmLost` |
| `collect` | `LockDebt`, `Collect`, `RefuseCollect` |

Abstractions.  Device rows and their locks are in `SlotReservation`, the payment
row that a refund marks in `DepositPayment`; the job looks at one booking; photos,
notes, contract snapshots and due dates are left out, and so is the blacklisting
after a loss.

The model also shows what the code allows and no property here denies: two
reports of one booking, both filed (the comment at booking-issues.service.ts:75
expects one); a deposit marked refunded twice, or put back to pending by a
cancellation that was decided before; a repair fee that is not deducted when a
later report ends the rental early.

### DevicesCache, Catalogue

`DevicesCache` is `devices-cache.service.ts`.  A list is the `version` of the
catalogue it was read from; `lists` and `index` are Redis, `inFlight` and
`generation` the process.  `getOrLoad` is `MissList`, `StartLoad`, `QueryList`,
`StoreList`, `SettleLoad`; `invalidateAll` is `FlushLists` (the part before the
first await, and the index as it is read) and `DeleteLists`.  Any Redis command
may fail, and lists expire.  `FlushLists` reads the index in the step that
increments the generation, since `invalidateAll` sends that reading before its
first await and Redis takes the commands of one connection in the order sent.

`Catalogue` adds who changes what the lists show, each ending with an
invalidation.

| Code | Actions |
|---|---|
| a review's transaction | `InsertReview`; `EditSameDay` and `EditNewDay`; `RemoveReview`, `ModerateReview`, `RestoreReview`, `SetVisibility`, which name the row by its id alone (`WriteById`); then `Aggregate`, and `RateDevice`, which commits |
| `create`, `update` of a device | `CreateDevice`, `PatchDevice`: any images, unchecked (`SaveRow`) |
| image upload, `replaceImages`, `addImages`, `remove` | `UploadImage`; `BeginReplace`, `BeginAdd`, `BeginDrop`, which read; `ReplaceImages`, `AddImages`, `RemoveDevice`, which write |
| `deleteDeviceImagesIfUnused` | `CountUses` and `DestroyImage`, one image after the other |
| `afterDeviceStatusChanged` of every booking handler | `ChangeStatus` |
| tickets | `OpenTicket`, `BeginTicket`, `ProgressTicket`, `ResolveTicket` |

What a review's transaction has written stays in `req[w].row` until it commits and
keeps the row locked (`Unlocked`); `Aggregate` sees what others have committed.
`Restart` loses requests and pending loads and keeps Redis.

`device` says which devices exist, `shown` which images each row has, `image` which
of them Cloudinary has.  `exposed` records, per device, the images its row was last
saved with although they were already deleted, or had been found unused and were
about to be: counting the uses and deleting are two steps, and neither the form
nor `PATCH` asks whether an image is still there.  The code does not protect such
an image; every other image on display has to be stored.

Abstractions.  One device (`TheDevice`) is reviewed and has tickets.  An image is one
of the shop's folder: a link elsewhere, which `create` and `PATCH` also accept, is
never deleted by this code and leaves nothing to check.  An `addImages` that is
lost because another request saved the row in between is possible here, as in the
code.  Who may write a review (role, blacklist), comments, listings and category
names are left out: a category's new name shows in cached lists only after their
time to live, since `categories.service.ts` does not invalidate.

What the model shows of reviews and no property denies: the author's `remove`
reads an active review and deletes by id (reviews.service.ts:331-333).  If a
moderator removes the review in between, the row goes all the same, and with it
the evidence and the bar to writing another one that the comments at
reviews.service.ts:339-342 and `schema.prisma:381-382` mean it for.
`RemovedReviewIsKept` has this as its only exception beside a restore.

### Accounts, ClientSession

`Accounts` is the server: `account` has the password (a counter, 0 for none) and
the stored refresh token, `links` the social accounts, `issued` the pairs of
tokens ever issued, `revoked`, `tickets` and `codes` Redis, `reset` the link of a
mail.  Operations are sequences of statements (`Statement`), each committed on
its own, in the order the code has them: `changePassword` writes, blacklists, ends
the session; `resetPassword` writes, ends the session, blacklists the link.  Only
`unlink` is one transaction (`LockAccount`, `CountLinks`, `DeleteLink`), and what
writes the same row, or inserts a link that refers to it, waits.

`ClientSession` is a page: the response interceptor of `api-client.ts` is `Settle`,
`Reject`, `Queue`, `Refresh`, `RefreshSucceeds`, `RefreshFails`; the tokens in
`auth-store.ts` are `store`.  Requests and answers may be lost (`LoseRefresh`,
`LoseAnswer`), the page may be loaded again (`Reload`), a sign-in or a sign-out may
come at any moment.

Abstractions.  Access tokens do not expire by the clock: a call may be refused at
any time.  The one-time state of a redirect is folded into the callback that
consumes it; a provider's profile is an identity and whether its address is
verified.  The role of an account does not change (`Staff` is a constant).  Phone
and identity-card numbers, photos, e-mail verification and the removal of accounts
are left out.  Other pages are other callers of the server: tabs that share
`localStorage` are not told apart from other devices.  A reset link can be used
twice if both requests come before the first has finished, which the comment at
auth.service.ts:499 excludes; the model has this order.

## 4. Runs

Each property of a passing run comes with a mutant of the code in
`PROJECT.json` under which TLC finds it violated.

| Run | Bounds | Shows |
|---|---|---|
| `slot_swap` | 2 requests, 2 bookings, 2 devices, 1 period, the form writes `available`; 1.06 million states | `SortedOrderSuffices`, `HoldsItsRows`, `ChecksStillHold`, `CreatesOnLiveDevice`, `SwapsToFreeDevice`, `CalendarGrowsUnderLock` |
| `slot_calendar` | 2 requests, 2 bookings, 1 device, 3 periods of which two touch; 565 000 states | `TypeOK`, `NoOverlap`, `ImplementsLedger` (refinement) |
| `slot_liveness` | 2 requests, 1 overdue booking, 2 devices; no symmetry; 176 000 states | `RequestsFinish` |
| `deposit` | 2 requests, 2 payments, 1 failure; no symmetry; 178 000 states | `TypeOK`, `NoRefundWithoutDeposit`, `PaidNoticeOnce`, `PendingIsWatched`, `PaidIsNotLeftPending`, `WebhookNeverRevives`, `PendingEnds`, `PaymentsSettle` |
| `policy` | 4 rentals, 697 half hours each | six comparisons with reference definitions |
| `settlement` | 2 requests, 2 reports, 2 devices, 4 days; 445 000 states | `SuspicionNoticedOnce`, `RepairFeeCoversReports`, `NeverOverCollected`, `DamageFeeIsFinal` |
| `catalogue` | 2 requests, 2 changes, 1 customer, 2 devices, 2 images, 1 ticket, 1 list, 2 days; 1.67 million states | `OneLoadPerKey`, `EveryChangeInvalidates`, `EditsPerDayBounded`, `ShownImagesAreStored`, `NoStaleListStored`, `RemovedReviewIsKept` |
| `portal` | 2 requests at a time, 3 in all, 2 calls, 2 accounts, 2 identities; 195 000 states | `LastSignInStays`, `ChangeEndsSessions`, `RefreshTokenPresentedOnce`, `EveryCallSettles` |
| `rating` | as `catalogue`, with 2 customers | violation of `RatingMatchesReviews` |
| `slot_deadlock` | as `slot_liveness` | violation of `NoDeadlock` |
| `slot_lost` | 1 request, 1 booking | violation of `LostIsFinal` |
| `deposit_forgotten` | 2 requests, 1 payment, no failure | violation of `NoForgottenDeposit` |

Why these bounds.  A race of this code is between a request that has read and
one that writes: two requests show it, and single-statement handlers
(`ConfirmAfterPayment`, `SetDeviceStatus`, `Report` and the rest) run besides
them without taking a worker.  Two bookings are what an overlap needs; three
periods, two touching and one across both, are the cases of the overlap test;
two devices are what a swap needs.  One failure at any step is what separates
the code's partial effects; a second one only repeats it.  Where a property does
not depend on a bound, the theorems of section 6 say so.  A run stops where the
bound on bookings or payments stops it, hence `CHECK_DEADLOCK FALSE`; for the
program's own circles of waits there is `NoDeadlock`.

`settlement` has prices for which damage and repair exceed the deposit, so that
debts arise from returns as well as from losses; its third day is late enough
for the overdue job.  `catalogue` starts with one review that has been edited
once and allows two edits a day, so that two concurrent edits meet at the limit;
a device needs one image instead of five.  The run has one customer: reviews of two
customers meet only in the rating, which the run `rating` is about, while two
devices are needed for an image that both show.  `MaxChanges` is two because a change
that neither overlaps another nor a load is covered by one.  The lists need no
second key: keys share only the generation and the index, and theorem
`OneLoadForEachKey` is for any number of them.  `portal` starts with an account
that has two identities and no password, or with one that has a password and none;
three requests are a refresh, an unlink or a change, and one that crosses it.

`SortedOrderSuffices` has an exception for a swap whose booking has moved to a
third device: it updates a device row it has not locked in order.

### Violations

* **`NoDeadlock`.**  The comment on `swapDevice` (booking-issues.service.ts:232)
  sorts the device ids "to avoid deadlock".  A swap holds both devices and needs
  the booking; a return holds the booking and needs the device.
* **`LostIsFinal`.**  `schema.prisma:34` calls `lost` final; `cancel` (line 1050)
  refuses completed and cancelled bookings only.
* **`NoForgottenDeposit`.**  The webhook records the payment; the TTL job has
  just started, so that `job.remove()` throws; the job cancels the booking with
  refund status `none`; VNPay's next call is answered "already confirmed".
* **`RatingMatchesReviews`.**  The comment on `recalculateDeviceRating`
  (reviews.service.ts:728) computes the rating in the transaction of the change
  "so that the two tables never differ".  Two transactions on two reviews of a
  device both aggregate before either commits; the later one stores a rating that
  misses the earlier one's review.

## 5. Fairness

* `slot_liveness`: `SF(Step(w))` for each request.  Postgres queues the waiters
  of a row in order of arrival, so a request that can step again and again does.
  `WF(DeadlockVictim(w))`: the deadlock detector runs after `deadlock_timeout`.
  Requests need not arrive, and nothing need fail.
* `deposit`: `WF(Step(w))`, since no step waits for another request; `WF` of the
  job's steps, since BullMQ runs a job that is due; `SF(BeginIpn)` per payment,
  since VNPay repeats its call, as long as there is no answer, while other
  requests come and go.  Its real retries are bounded; a project that wants to
  count them has to bound the failures with them.

`PendingEnds` allows for failures: a request that fails after it has removed the
job leaves the booking to the staff.  `PaymentsSettle` does not.

* `portal`: `WF(Statement(w))`, since the server goes on with a request and an
  unlink's lock is held by a request that goes on too; `WF(Interceptor(c))`, since
  the browser runs the handler of an answer that is there; `WF(Network(c))`, since
  a request is delivered or seen to fail.  Calls need not be made, nothing need
  fail, and no one need sign in.  An answer that the server has given is read or
  lost, never kept from the page.

## 6. Theorems

Checked by TLAPS for every value of the constants, under the assumptions the
modules name (devices are ordered numbers, periods are not empty, ids are
distinct, `None` is nothing).

**`SlotReservationProofs`.**
`AlwaysTyped`: `TypeOK` alone is not inductive, since a request writes the row it
read earlier; `RequestsOK` adds that a request past its first read works on rows
that exist.
`NeverOverlaps`: every step that makes a booking active or moves an active one
passes `ConstraintAccepts`; the conditional update of the webhook writes a
booking that holds its period already.  It needs no locks: the constraint alone
keeps the calendar, which is what makes the stale writes harmless there.
`LedgerIsImplemented`: one lemma per kind of change (reserve, release, move,
none) and one case per action.
`LocksProtectChecks`: `HoldsItsRows` and `ChecksStillHold` together are
inductive: only the holder of a row lock, or a step that finds the row free,
writes the row, so that a device checked under its lock stays as it was.
`CreationsAreChecked` and `SwapsAreChecked` are the action properties that follow.
`TransactionsHoldTheirRows` is the half about the locks by itself.
`CalendarsGrowLocked`: an insert or a swap holds the device's row, and any other
write keeps device and period, so that it adds an entry only by reviving a booking.
The holder is the request whose step adds the entry, not just any.
`SortingSuffices`: besides what a request holds for certain, its invariant
(`Placed`, `HoldsOnly`) says what it holds at most.  A creation waits holding
nothing; a swap waiting for its second device holds the smaller one only; a swap
waiting for its booking holds no booking.  In a circle of such requests each would
be waited for by one whose first device is smaller, and a set of numbers has a
least one.

**`DepositPaymentProofs`.**
`DepositTyped`; `RefundsRestOnDeposits`, which strengthens the property by what a
cancellation in progress has decided and by confirmed bookings having been
collected; `OnePaidNotice`, by no notice being sent before the booking leaves
pending and pending never coming back; `PendingAlwaysWatched`, by the stages of
the job and of each request that has removed it; `PaidNeverLeftPending`, by
`PaidInv`: while nothing has failed, a payment received with the booking pending
has a webhook between its two writes (`Confirming`) or a job that is being
processed, and the job is added once, by the request that created the booking
(`JobInv`), so that nothing takes it back to waiting; `NoWebhookRevives`, since the webhook's UPDATE has its condition and
only a confirmation by staff has none.

**`BusinessPolicyProofs`.**
`SettlementBalances`; `LostClaimIsBounded`, which needs the proviso that the
deposit is within the claim, as the comment over the function does not say;
`DepositIsWithinClaim` and `SwappedDepositIsWithinClaim` discharge it for the
first device and after one swap (a chain of five swaps down in value would not
keep it); `UnusedRefundIsWithinPrice`; `LateFeeIsWithinValue`, that the late fee,
a recursive sum, is an amount and is cut to the value of the device.

**`InductionLemmas`.**  Induction over data, in a form the provers can use: a
claim is the set of the numbers, or of the subsets of a finite set, for which it
holds, and one shows that the set has everything (`EveryNumber`, `EverySubset`,
from the well-foundedness of `<` and of strict inclusion).  From these: that a sum
over a finite set exists, is a number, and grows by no more than the one value
that grows (`SomeSum`, `SumsAreNumbers`, `SumGrowsWithOne`), and that a counting
loop ends with a value (`SomeLoop`).

**`MCBusinessPolicyProofs`.**  The six properties of `policy`, for every price
list, clock, length of an hour and rounding.  The invariant is only that the rental
is of the list and the time is the clock's (`Priced`); the work is in the figures.
`LateFeeAlwaysProgressive` compares the loop of daily fees with the closed form
(`FeesAreProgressive`, by induction over the days) and rounding up with counting
the days begun (`DaysBegunAre`); `DueAlwaysAfterThreeWorkingDays` follows the three
rounds of `addBusinessDays`, each of which stops one to three days ahead
(`NextWorkingDay`), and counts the working days between; `LongerNeverCostsLess`
has the step from 24 hours to two days; `BestTierAlwaysApplies` says
that the percentage is that of the best tier kept, and none when no tier is;
`UnusedShareIsAlwaysRefunded` and `LostClaimIsAlwaysCapped`, the latter also for a
device that was swapped in, follow from the bounds of each division.

**`RentalSettlementProofs`.**  (It assumes that the reports of a booking are
finitely many.  That late fees are amounts is not assumed but follows from
`LateFeeIsWithinValue`.)
`SettlementTyped`; `NobodyOverCollects`, whose invariant
(`CollectInv`) says that a collection at its write holds the lock, so that no two
are there together, and that the debt it has read is the debt there is: every
other write waits for the lock, and a failure gives it back.
`SuspicionNeverRepeated`: the run of the job that set the flag, and no other, is
about to notify (`NoticeInv`).  `NobodyOverwritesDamage`: each write that ends a
rental refuses a booking with a return, or does not name the damage fee.
`RepairsAreAllCharged`: a resolution adds the same amount to its report and, by an
increment, to the booking; the sum over the reports grows by that at most
(`SumGrowsWithOne`).

**`CatalogueProofs`.**  The invariant `IInv` has four parts.  `Typed` has the types.
`Loads`: a load of the present generation is the one in `inFlight`, and what it has
read is no older than the fence.  `EveryChangeInvalidates` is inductive beside the
types.  `Rows`: no two transactions write one row, what a transaction has written
differs from the committed row as its operation says, and the count of edits since
the day changed is the row's own.  From it follow `OneLoadForEachKey`,
`NoWriterForgetsTheLists`, `NobodyEditsTooOften`, and the action properties
`NobodyStoresAStaleList` and `NobodyEditsARemovedReview`.
`NobodyEditsARemovedReview` follows since an edit's row is locked from its UPDATE to
its commit, so that no moderator removes it in between.
`NoShownImageIsDeleted` has an invariant of its own beside it (`ImagesInv`): an image
that a request is about to delete is in no row, but for the rows saved with it
since it was counted (`UnusedWhenCounted`).  It holds for any number of devices
and of image requests side by side.

**`AccountsProofs`.**  `LastSignInAlwaysStays`, under the assumption that every
account there is at the start can be signed in to (`BeginningsAreSound`, which TLC
evaluates for the run's).  The invariant says that one unlink at a time is between
its lock and its end for an account (`OneUnlink`), and that a password seen under
the lock is still there, and that when it is about to delete, a password or a link
of another provider remains (`CountHolds`).  Every other step only adds ways to
sign in (`OnlyAdds`), for which one lemma shows that the invariant is kept.
`ChangesEndSessions`: a stored session that rests on a password since changed has a
request under way that is still to end it, unless the account is excused
(`SessionInv`); only the writing of a password outdates a session, and that request
then has the session to end.  `TokenIsPresentedOnce` (`StoreInv`): a token on its way
to a caller is nobody else's and was not presented, and the page has presented the
token it has only while it refreshes; one refresh is under way at a time.

**Model-checked only.**  Liveness (`RequestsFinish`, `PendingEnds`,
`PaymentsSettle`, `EveryCallSettles`): fairness and `ENABLED` are out of the
prover's reach.  The four properties that TLC finds violated.

## 7. Not modelled

Contracts (text and PDF), uploads and mail (calls to other services), search and
policies (read-only), the AI relay (prompts, text rules and a stream), seeds and
scripts (run by hand), page rendering, forms, validation of inputs, listings and
statistics: more than three quarters of the repository's lines are of this kind,
and have no state that two steps could disagree about.

Realtime rooms: pushes that repeat what the database holds, and nothing reads
who is in a room.  Notifications, except for the payment notice and the suspicion
of a loss, which are counted.  Categories and roles as state.

The blacklist, identity documents and the removal of accounts: columns of the
customer's row that only the gate of `create` and the listings read.  Reading the
code shows two orders worth a run of their own later.  `PATCH users/:id/kyc-reset`
clears the row and then deletes images under names that a submission in between
has used again (users.controller.ts:246).  `remove` tests the blacklist and then
deletes the row, so that a customer without bookings who is put on the list in
between goes all the same, which the comment at users.service.ts:300 excludes.
