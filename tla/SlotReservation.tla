-------------------------- MODULE SlotReservation ---------------------------
(***************************************************************************)
(* Bookings, devices and the database transactions that connect them       *)
(* (bookings.service.ts, booking-issues.service.ts, booking-loss.service.ts*)
(* payments.service.ts and the Postgres constraint under them).            *)
(*                                                                         *)
(* A request is a worker: it reads a booking, decides on what it read, and *)
(* writes later, so that other requests run in between.  Three kinds of    *)
(* write exist and all three are modelled by the row locks they take:      *)
(*   - one UPDATE of one row (confirm, expire, cancel);                    *)
(*   - a batch transaction that updates the booking row and then the device*)
(*     row (start, confirmReturn, endEarly, confirmLost);                  *)
(*   - an interactive transaction that takes device rows FOR UPDATE first  *)
(*     (createBookingInTransaction, swapDevice).                           *)
(* A transaction's effects become visible when it commits; until then only *)
(* its row locks are.  The exclusion constraint no_overlapping_bookings is *)
(* checked by every write that leaves a booking active.                    *)
(*                                                                         *)
(* Money, notifications, photos and contract text are left out here.       *)
(***************************************************************************)
EXTENDS Naturals, FiniteSets

CONSTANTS
  Workers,     \* requests that can be in progress at the same time
  Bookings,    \* booking ids the run may use
  Devices,     \* device ids, ordered as the code sorts them
  Slots,       \* rental periods [from, to]
  Equivalent,  \* pairs <<old, candidate>> of one category and similar value
  Overdue,     \* bookings whose end lies LOST_SUSPECT_OVERDUE_DAYS in the past
  FormStatuses,\* the statuses the admin form and the tickets write in this run
  None         \* no row, no worker, no period

ASSUME DevicesAreOrdered == Devices \subseteq Nat
ASSUME SlotsArePeriods ==
  Slots \subseteq {s \in [from : Nat, to : Nat] : s.from < s.to}
ASSUME EquivalentIsOnDevices == Equivalent \subseteq Devices \X Devices
ASSUME FormWritesStatuses ==
  FormStatuses \subseteq {"available", "rented", "maintenance", "broken", "lost"}
ASSUME NoneIsNothing ==
  None \notin Workers /\ None \notin Devices /\ None \notin Slots /\ None \notin Bookings
ASSUME OverdueAreBookings == Overdue \subseteq Bookings
ASSUME RowsAreDistinct == Bookings \intersect Devices = {}

VARIABLES
  booking,   \* the bookings table
  device,    \* the devices table
  marks,     \* per booking: what other handlers have recorded about it
  returned,  \* bookings that have a "return" inspection row (unique per booking)
  lock,      \* row locks: the transaction holding each row
  req        \* what each worker is doing

vars == <<booking, device, marks, returned, lock, req>>

-----------------------------------------------------------------------------
(* Rows *)

ActiveStatuses == {"pending", "confirmed", "ongoing"}
BookingStatuses == ActiveStatuses \union {"completed", "cancelled", "lost"}
DeviceStatuses == {"available", "rented", "maintenance", "broken", "lost"}

(* "ready": rent paid, contract signed, handover photos taken;             *)
(* "reported": an issue report is open; "suspected": suspectedLostAt set.  *)
Marks == {"ready", "reported", "suspected"}

Absent == [status |-> "absent", device |-> None, slot |-> None]
BookingRow == [status : BookingStatuses, device : Devices, slot : Slots]
DeviceRow == [status : DeviceStatuses, isDiscontinued : BOOLEAN]

Rows == Devices \union Bookings

(* Mutant: only a period that starts inside the other one is noticed. *)
OverlapsByStart(s, t) == s.from <= t.from /\ t.from < s.to

Overlaps(s, t) == s.from < t.to /\ t.from < s.to

Active(b) == booking[b].status \in ActiveStatuses

(* Some other active booking holds device d during s. *)
Overlapping(b, d, s) ==
  \E c \in Bookings \ {b} :
    /\ Active(c)
    /\ booking[c].device = d
    /\ Overlaps(booking[c].slot, s)

(* Mutant: a constraint that leaves pending bookings out. *)
ConstraintIgnoresPending(b, row) ==
  row.status \in {"confirmed", "ongoing"} => ~Overlapping(b, row.device, row.slot)

(* The exclusion constraint's verdict on writing row as booking b. *)
ConstraintAccepts(b, row) ==
  row.status \in ActiveStatuses => ~Overlapping(b, row.device, row.slot)

-----------------------------------------------------------------------------
(* Requests *)

StatusWrites == {"confirm", "cancel", "cancelOngoing"}
BookingFirst == {"start", "confirmReturn", "endEarly", "confirmLost"}
DeviceFirst == {"create", "swap"}

Request == [op : StatusWrites \union BookingFirst \union DeviceFirst \union {"idle"},
            pc : {"idle", "write", "freeDevice", "lockBooking", "lockDevice",
                  "lockFirst", "lockSecond", "check", "insert", "commit"},
            b : Bookings \union {None},
            d : Devices \union {None},      \* the device the request read
            e : Devices \union {None},      \* the replacement it was given
            old : Devices \union {None},    \* the device re-read inside the swap
            slot : Slots \union {None}]

Idle == [op |-> "idle", pc |-> "idle", b |-> None, d |-> None, e |-> None,
         old |-> None, slot |-> None]

At(w, op, pc) == req[w].op = op /\ req[w].pc = pc

Goto(w, pc) == req' = [req EXCEPT ![w].pc = pc]

Finish(w) == req' = [req EXCEPT ![w] = Idle]

Free(row) == lock[row] = None
Owns(w, row) == lock[row] = w

Take(w, row) == lock' = [lock EXCEPT ![row] = w]

(* COMMIT and ROLLBACK both give back every row lock of the transaction. *)
ReleaseAll(w) == lock' = [r \in Rows |-> IF lock[r] = w THEN None ELSE lock[r]]

Rollback(w) ==
  /\ ReleaseAll(w)
  /\ Finish(w)
  /\ UNCHANGED <<booking, device, marks, returned>>

-----------------------------------------------------------------------------
(* create: lock the device row, check it and its calendar, insert *)

BeginCreate(w) ==
  /\ req[w] = Idle
  /\ \E d \in Devices, s \in Slots :
       req' = [req EXCEPT ![w] = [Idle EXCEPT !.op = "create", !.pc = "lockDevice",
                                              !.d = d, !.slot = s]]
  /\ UNCHANGED <<booking, device, marks, returned, lock>>

(* Mutant: the device is read without FOR UPDATE. *)
ReadCreateDevice(w) ==
  /\ At(w, "create", "lockDevice")
  /\ Goto(w, "check")
  /\ UNCHANGED <<booking, device, marks, returned, lock>>

LockCreateDevice(w) ==
  /\ At(w, "create", "lockDevice")
  /\ Free(req[w].d)
  /\ Take(w, req[w].d)
  /\ Goto(w, "check")
  /\ UNCHANGED <<booking, device, marks, returned>>

CanBeBooked(d, s) ==
  /\ ~device[d].isDiscontinued
  /\ device[d].status \notin {"broken", "maintenance"}
  /\ ~Overlapping(None, d, s)

CheckCreate(w) ==
  /\ At(w, "create", "check")
  /\ \/ /\ CanBeBooked(req[w].d, req[w].slot)
        /\ Goto(w, "insert")
        /\ UNCHANGED <<booking, device, marks, returned, lock>>
     \/ /\ ~CanBeBooked(req[w].d, req[w].slot)
        /\ Rollback(w)

(* Mutant: an insert that forgets the default status. *)
NewRowWithoutStatus(w) == [status |-> "new", device |-> req[w].d, slot |-> req[w].slot]

NewRow(w) == [status |-> "pending", device |-> req[w].d, slot |-> req[w].slot]

(* The insert and the COMMIT.  Bound: with no id of Bookings left the      *)
(* request gives up.                                                       *)
InsertBooking(w) ==
  /\ At(w, "create", "insert")
  /\ \/ \E b \in Bookings :
          /\ booking[b] = Absent
          /\ ConstraintAccepts(b, NewRow(w))
          /\ booking' = [booking EXCEPT ![b] = NewRow(w)]
          /\ ReleaseAll(w)
          /\ Finish(w)
          /\ UNCHANGED <<device, marks, returned>>
     \/ /\ \A b \in Bookings :
             booking[b] = Absent => ~ConstraintAccepts(b, NewRow(w))
        /\ Rollback(w)

-----------------------------------------------------------------------------
(* confirm, expireIfStillPending, cancel: read, decide, then one           *)
(* unconditional UPDATE of the status                                      *)

BeginStatusWrite(w, op, b, d) ==
  /\ req[w] = Idle
  /\ req' = [req EXCEPT ![w] = [Idle EXCEPT !.op = op, !.pc = "write", !.b = b, !.d = d]]
  /\ UNCHANGED <<booking, device, marks, returned, lock>>

BeginConfirm(w, b) ==
  /\ booking[b].status = "pending"
  /\ BeginStatusWrite(w, "confirm", b, None)

(* The TTL job and a cancellation that is not of a rental in progress      *)
(* write the same status and remember nothing else.                        *)
BeginExpire(w, b) ==
  /\ booking[b].status = "pending"
  /\ BeginStatusWrite(w, "cancel", b, None)

(* The guard names completed and cancelled only: a lost booking passes. *)
BeginCancel(w, b) ==
  /\ booking[b] # Absent
  /\ booking[b].status \notin {"completed", "cancelled"}
  /\ IF booking[b].status = "ongoing"
       THEN BeginStatusWrite(w, "cancelOngoing", b, booking[b].device)
       ELSE BeginStatusWrite(w, "cancel", b, None)

WrittenStatus(op) == IF op = "confirm" THEN "confirmed" ELSE "cancelled"

WriteStatus(w) ==
  LET b == req[w].b
      row == [booking[b] EXCEPT !.status = WrittenStatus(req[w].op)] IN
  /\ req[w].op \in StatusWrites
  /\ req[w].pc = "write"
  /\ Free(b)
  /\ \/ /\ ConstraintAccepts(b, row)
        /\ booking' = [booking EXCEPT ![b] = row]
        /\ IF req[w].op = "cancelOngoing" THEN Goto(w, "freeDevice") ELSE Finish(w)
        /\ UNCHANGED <<device, marks, returned, lock>>
     \/ /\ ~ConstraintAccepts(b, row)
        /\ Rollback(w)

(* cancel of a rental in progress: a second statement, outside any         *)
(* transaction, frees the device of the booking row it read.               *)
FreeDevice(w) ==
  /\ At(w, "cancelOngoing", "freeDevice")
  /\ Free(req[w].d)
  /\ device' = [device EXCEPT ![req[w].d].status = "available"]
  /\ Finish(w)
  /\ UNCHANGED <<booking, marks, returned, lock>>

(* confirmBookingAfterPayment: the condition is inside the UPDATE. *)
ConfirmAfterPayment(b) ==
  /\ booking[b].status = "pending"
  /\ Free(b)
  /\ booking' = [booking EXCEPT ![b].status = "confirmed"]
  /\ UNCHANGED <<device, marks, returned, lock, req>>

-----------------------------------------------------------------------------
(* start, confirmReturn, endEarly, confirmLost: booking row, then device row *)

(* What such a handler remembers of its first read: the id and the device. *)
Begin(w, op, b) ==
  /\ req[w] = Idle
  /\ req' = [req EXCEPT ![w] = [Idle EXCEPT !.op = op, !.pc = "lockBooking", !.b = b,
                                            !.d = booking[b].device]]
  /\ UNCHANGED <<booking, device, marks, returned, lock>>

BeginStart(w, b) ==
  /\ booking[b].status = "confirmed"
  /\ "ready" \in marks[b]
  /\ Begin(w, "start", b)

BeginConfirmReturn(w, b) ==
  /\ booking[b].status = "ongoing"
  /\ Begin(w, "confirmReturn", b)

BeginEndEarly(w, b) ==
  /\ booking[b].status = "ongoing"
  /\ "reported" \in marks[b]
  /\ Begin(w, "endEarly", b)

BeginConfirmLost(w, b) ==
  /\ booking[b].status = "ongoing"
  /\ "suspected" \in marks[b]
  /\ Begin(w, "confirmLost", b)

LockBooking(w) ==
  /\ req[w].op \in BookingFirst
  /\ req[w].pc = "lockBooking"
  /\ Free(req[w].b)
  /\ Take(w, req[w].b)
  /\ Goto(w, "commit")
  /\ UNCHANGED <<booking, device, marks, returned>>

(* The device update and the COMMIT of a booking-first transaction. *)
CommitBookingFirst(w, op, status, deviceRow) ==
  LET b == req[w].b
      row == [booking[b] EXCEPT !.status = status] IN
  /\ At(w, op, "commit")
  /\ Free(req[w].d)
  /\ ConstraintAccepts(b, row)
  /\ booking' = [booking EXCEPT ![b] = row]
  /\ device' = [device EXCEPT ![req[w].d] = deviceRow]
  /\ ReleaseAll(w)
  /\ Finish(w)

Start(w) ==
  /\ CommitBookingFirst(w, "start", "ongoing", [device[req[w].d] EXCEPT !.status = "rented"])
  /\ UNCHANGED <<marks, returned>>

(* A booking cancelled since the read, whose period has been given away:   *)
(* the constraint refuses the UPDATE, and the batch with it.               *)
RefuseStart(w) ==
  LET b == req[w].b IN
  /\ At(w, "start", "commit")
  /\ ~ConstraintAccepts(b, [booking[b] EXCEPT !.status = "ongoing"])
  /\ Rollback(w)

(* The insert of a second return record fails, and the batch with it. *)
RefuseReturn(w) ==
  /\ At(w, "confirmReturn", "commit")
  /\ req[w].b \in returned
  /\ Rollback(w)

(* Back intact, or damaged and straight to maintenance. *)
ConfirmReturn(w) ==
  /\ req[w].b \notin returned
  /\ \E next \in {"available", "maintenance"} :
       CommitBookingFirst(w, "confirmReturn", "completed",
                          [device[req[w].d] EXCEPT !.status = next])
  /\ returned' = returned \union {req[w].b}
  /\ UNCHANGED marks

EndEarly(w) ==
  /\ CommitBookingFirst(w, "endEarly", "completed",
                        [device[req[w].d] EXCEPT !.status = "maintenance"])
  /\ marks' = [marks EXCEPT ![req[w].b] = @ \ {"reported"}]
  /\ UNCHANGED returned

ConfirmLost(w) ==
  /\ CommitBookingFirst(w, "confirmLost", "lost",
                        [status |-> "lost", isDiscontinued |-> TRUE])
  /\ UNCHANGED <<marks, returned>>

-----------------------------------------------------------------------------
(* swapDevice: both device rows in id order, checks, then the booking row *)

BeginSwap(w, b, e) ==
  /\ booking[b].status = "ongoing"
  /\ "reported" \in marks[b]
  /\ e # booking[b].device
  /\ req[w] = Idle
  /\ req' = [req EXCEPT ![w] = [Idle EXCEPT !.op = "swap", !.pc = "lockFirst", !.b = b,
                                            !.d = booking[b].device, !.e = e]]
  /\ UNCHANGED <<booking, device, marks, returned, lock>>

(* Mutant: the ids in the order they were read. *)
UnsortedOrder(w) == <<req[w].d, req[w].e>>

(* [booking.deviceId, newDeviceId].sort() *)
LockOrder(w) ==
  IF req[w].d < req[w].e THEN <<req[w].d, req[w].e>> ELSE <<req[w].e, req[w].d>>

LockSwapFirst(w) ==
  /\ At(w, "swap", "lockFirst")
  /\ Free(LockOrder(w)[1])
  /\ Take(w, LockOrder(w)[1])
  /\ Goto(w, "lockSecond")
  /\ UNCHANGED <<booking, device, marks, returned>>

(* Mutant: only one of the two devices is locked. *)
SkipSecondLock(w) ==
  /\ At(w, "swap", "lockSecond")
  /\ Goto(w, "check")
  /\ UNCHANGED <<booking, device, marks, returned, lock>>

LockSwapSecond(w) ==
  /\ At(w, "swap", "lockSecond")
  /\ Free(LockOrder(w)[2])
  /\ Take(w, LockOrder(w)[2])
  /\ Goto(w, "check")
  /\ UNCHANGED <<booking, device, marks, returned>>

CanReplace(b, e) ==
  /\ booking[b].status = "ongoing"
  /\ <<booking[b].device, e>> \in Equivalent
  /\ device[e].status = "available"
  /\ ~device[e].isDiscontinued
  /\ ~Overlapping(b, e, booking[b].slot)

(* Mutant: a refused candidate is tried again, with both devices locked. *)
RetrySwap(w) ==
  LET b == req[w].b IN
  /\ At(w, "swap", "check")
  /\ CanReplace(b, req[w].e)
  /\ req' = [req EXCEPT ![w].pc = "lockBooking", ![w].old = booking[b].device]
  /\ UNCHANGED <<booking, device, marks, returned, lock>>

CheckSwap(w) ==
  LET b == req[w].b IN
  /\ At(w, "swap", "check")
  /\ \/ /\ CanReplace(b, req[w].e)
        /\ req' = [req EXCEPT ![w].pc = "lockBooking", ![w].old = booking[b].device]
        /\ UNCHANGED <<booking, device, marks, returned, lock>>
     \/ /\ ~CanReplace(b, req[w].e)
        /\ Rollback(w)

LockSwapBooking(w) ==
  /\ At(w, "swap", "lockBooking")
  /\ Free(req[w].b)
  /\ Take(w, req[w].b)
  /\ Goto(w, "commit")
  /\ UNCHANGED <<booking, device, marks, returned>>

(* The re-read device is updated whether or not it is one of the two       *)
(* locked ones: booking.deviceId may have changed since the first read.    *)
SwapDevice(w) ==
  LET b == req[w].b
      e == req[w].e
      old == req[w].old
      row == [booking[b] EXCEPT !.device = e] IN
  /\ At(w, "swap", "commit")
  /\ Free(old) \/ Owns(w, old)
  /\ \/ /\ ConstraintAccepts(b, row)
        /\ booking' = [booking EXCEPT ![b] = row]
        /\ device' = [device EXCEPT ![old].status = "maintenance", ![e].status = "rented"]
        /\ marks' = [marks EXCEPT ![b] = @ \ {"reported"}]
        /\ ReleaseAll(w)
        /\ Finish(w)
        /\ UNCHANGED returned
     \/ /\ ~ConstraintAccepts(b, row)
        /\ Rollback(w)

-----------------------------------------------------------------------------
(* What the other handlers record, each in one statement.  A mark written  *)
(* late, on a booking that has moved on, changes nothing: whoever uses a   *)
(* mark tests the status with it.                                          *)

(* recordRentalPayment, recordHandover and setContractSigned, as one mark. *)
(* A signature can also be taken back; all that does is to refuse a start  *)
(* that has not read it yet, so that it adds no behaviour and is left out. *)
CounterSteps(b) ==
  /\ booking[b].status = "confirmed"
  /\ Free(b)
  /\ marks' = [marks EXCEPT ![b] = @ \union {"ready"}]
  /\ UNCHANGED <<booking, device, returned, lock, req>>

Report(b) ==
  /\ booking[b].status = "ongoing"
  /\ marks' = [marks EXCEPT ![b] = @ \union {"reported"}]
  /\ UNCHANGED <<booking, device, returned, lock, req>>

ChargeCustomerFault(b) ==
  /\ booking[b].status = "ongoing"
  /\ "reported" \in marks[b]
  /\ Free(b)
  /\ marks' = [marks EXCEPT ![b] = @ \ {"reported"}]
  /\ UNCHANGED <<booking, device, returned, lock, req>>

FlagSuspectedLost(b) ==
  /\ booking[b].status = "ongoing"
  /\ b \in Overdue
  /\ Free(b)
  /\ marks' = [marks EXCEPT ![b] = @ \union {"suspected"}]
  /\ UNCHANGED <<booking, device, returned, lock, req>>

(* The admin's device form and the maintenance tickets write any of these  *)
(* statuses without looking at the one they overwrite.                     *)
SetDeviceStatus(d, s) ==
  /\ Free(d)
  /\ device' = [device EXCEPT ![d].status = s]
  /\ UNCHANGED <<booking, marks, returned, lock, req>>

(* An error, a transaction timeout or a restart of the process: Postgres   *)
(* rolls the open transaction back; what earlier statements did stays.     *)
Fail(w) == req[w] # Idle /\ Rollback(w)

-----------------------------------------------------------------------------
(* Who waits for whom *)

(* The row whose lock the worker's next statement needs, if any. *)
Wanted(w) ==
  LET r == req[w] IN
  CASE r.op \in StatusWrites /\ r.pc = "write"        -> r.b
    [] r.pc = "freeDevice"                            -> r.d
    [] r.pc = "lockDevice"                            -> r.d
    [] r.pc = "lockBooking"                           -> r.b
    [] r.op \in BookingFirst /\ r.pc = "commit"       -> r.d
    [] r.pc = "lockFirst"                             -> LockOrder(w)[1]
    [] r.pc = "lockSecond"                            -> LockOrder(w)[2]
    [] r.op = "swap" /\ r.pc = "commit"               -> r.old
    [] OTHER                                          -> None

WaitsFor(w, v) == v # w /\ Wanted(w) # None /\ Owns(v, Wanted(w))

(* W closed under waiting in both directions: every request of W waits    *)
(* for one of W and is waited for by one of W.                             *)
Cycle(W) ==
  /\ W # {}
  /\ \A w \in W : /\ \E v \in W : WaitsFor(w, v)
                  /\ \E v \in W : WaitsFor(v, w)

(* Postgres finds the cycle and makes a member of it fail. *)
DeadlockVictim(w) ==
  /\ \E W \in SUBSET Workers : w \in W /\ Cycle(W)
  /\ Rollback(w)

-----------------------------------------------------------------------------
Init ==
  /\ booking = [b \in Bookings |-> Absent]
  /\ device = [d \in Devices |-> [status |-> "available", isDiscontinued |-> FALSE]]
  /\ marks = [b \in Bookings |-> {}]
  /\ returned = {}
  /\ lock = [r \in Rows |-> None]
  /\ req = [w \in Workers |-> Idle]

(* A request in progress takes its next step. *)
Step(w) ==
  \/ LockCreateDevice(w) \/ CheckCreate(w) \/ InsertBooking(w)
  \/ WriteStatus(w) \/ FreeDevice(w)
  \/ LockBooking(w) \/ RefuseStart(w) \/ RefuseReturn(w)
  \/ Start(w) \/ ConfirmReturn(w) \/ EndEarly(w) \/ ConfirmLost(w)
  \/ LockSwapFirst(w) \/ LockSwapSecond(w) \/ CheckSwap(w)
  \/ LockSwapBooking(w) \/ SwapDevice(w)

(* A request arrives. *)
Arrive(w) ==
  \/ BeginCreate(w)
  \/ \E b \in Bookings :
       \/ BeginConfirm(w, b) \/ BeginExpire(w, b) \/ BeginCancel(w, b)
       \/ BeginStart(w, b) \/ BeginConfirmReturn(w, b)
       \/ BeginEndEarly(w, b) \/ BeginConfirmLost(w, b)
       \/ \E e \in Devices : BeginSwap(w, b, e)

Next ==
  \/ \E w \in Workers : Arrive(w) \/ Step(w) \/ Fail(w) \/ DeadlockVictim(w)
  \/ \E b \in Bookings : \/ ConfirmAfterPayment(b) \/ CounterSteps(b)
                         \/ Report(b) \/ ChargeCustomerFault(b)
                         \/ FlagSuspectedLost(b)
  \/ \E d \in Devices, s \in FormStatuses : SetDeviceStatus(d, s)

Spec == Init /\ [][Next]_vars

(* Postgres serves the waiters of a row in arrival order, so a request     *)
(* that is again and again able to step does step; and it breaks cycles.   *)
Fairness == \A w \in Workers : SF_vars(Step(w)) /\ WF_vars(DeadlockVictim(w))

FairSpec == Spec /\ Fairness

-----------------------------------------------------------------------------
(* Properties *)

TypeOK ==
  /\ booking \in [Bookings -> BookingRow \union {Absent}]
  /\ device \in [Devices -> DeviceRow]
  /\ marks \in [Bookings -> SUBSET Marks]
  /\ returned \subseteq Bookings
  /\ lock \in [Rows -> Workers \union {None}]
  /\ req \in [Workers -> Request]

(* A request past its first read works on rows that exist. *)
RequestOK(r) ==
  /\ r.op = "create" => r.d \in Devices /\ r.slot \in Slots
  /\ r.op \in StatusWrites \union BookingFirst \union {"swap"} =>
       r.b \in Bookings /\ booking[r.b] \in BookingRow
  /\ r.op \in BookingFirst \union {"swap", "cancelOngoing"} => r.d \in Devices
  /\ r.op = "swap" => r.e \in Devices
  /\ r.op = "swap" /\ r.pc \in {"lockBooking", "commit"} => r.old \in Devices

RequestsOK == \A w \in Workers : RequestOK(req[w])

HoldsRows(w) ==
  LET r == req[w] IN
  /\ r.op = "create" /\ r.pc \in {"check", "insert"} => Owns(w, r.d)
  /\ r.op \in BookingFirst /\ r.pc = "commit" => Owns(w, r.b)
  /\ r.op = "swap" /\ r.pc = "lockSecond" => Owns(w, LockOrder(w)[1])
  /\ r.op = "swap" /\ r.pc \in {"check", "lockBooking", "commit"} =>
       Owns(w, r.d) /\ Owns(w, r.e)
  /\ r.op = "swap" /\ r.pc = "commit" => Owns(w, r.b)

(* What a transaction relies on is locked by it: a creation past its read  *)
(* of the device, a batch past its first UPDATE, a swap past each lock.    *)
HoldsItsRows == \A w \in Workers : HoldsRows(w)

CheckHolds(w) ==
  LET r == req[w] IN
  /\ r.op = "create" /\ r.pc = "insert" =>
       ~device[r.d].isDiscontinued /\ device[r.d].status \notin {"broken", "maintenance"}
  /\ r.op = "swap" /\ r.pc \in {"lockBooking", "commit"} =>
       ~device[r.e].isDiscontinued /\ device[r.e].status = "available"

(* What a transaction checked of a device still holds until its COMMIT.    *)
ChecksStillHold == \A w \in Workers : CheckHolds(w)

(* No device is promised to two active bookings at once, whatever requests *)
(* race: not two creations, not a swap against a creation, not a stale     *)
(* confirm or start that revives an ended booking.                         *)
NoOverlap ==
  \A b, c \in Bookings :
    b # c /\ Active(b) /\ Active(c) /\ booking[b].device = booking[c].device
      => ~Overlaps(booking[b].slot, booking[c].slot)

(* A booking is created on a device that is in service at that moment: the *)
(* check under SELECT ... FOR UPDATE still holds at the insert, although   *)
(* admins, tickets, returns and losses write device rows all the time.     *)
CreatesOnLiveDevice ==
  [][\A b \in Bookings :
       booking[b] = Absent /\ booking'[b] # Absent =>
         LET d == booking'[b].device IN
         ~device[d].isDiscontinued /\ device[d].status \notin {"broken", "maintenance"}]_vars

(* A swap hands over a device that is free at that moment: between the     *)
(* check of the candidate and the COMMIT nobody rents, breaks or loses it. *)
SwapsToFreeDevice ==
  [][\A b \in Bookings :
       booking[b] # Absent /\ booking'[b].device # booking[b].device =>
         LET d == booking'[b].device IN
         ~device[d].isDiscontinued /\ device[d].status = "available"]_vars

Calendar(d) == {<<b, booking[b].slot>> : b \in {c \in Bookings : Active(c) /\ booking[c].device = d}}

Revived(b) == booking[b].status \in BookingStatuses \ ActiveStatuses /\ Active(b)'

(* A device's calendar gains an entry only in a step of the transaction    *)
(* that holds the device's row lock.  The exception is a stale confirm or  *)
(* start, which revives a booking that has ended and leaves only the       *)
(* constraint to refuse it.                                                *)
CalendarGrowsUnderLock ==
  [][\A d \in Devices :
       \A h \in Calendar(d)' \ Calendar(d) :
         \/ \E w \in Workers : Owns(w, d) /\ req'[w] # req[w]
         \/ Revived(h[1])]_vars

(* booking-issues.service.ts sorts the two device ids "to avoid deadlock": *)
(* creations and swaps whose booking still has the device they sorted by   *)
(* never wait for one another in a circle.                                 *)
SortedOrderSuffices ==
  \A W \in SUBSET Workers :
    Cycle(W) => \E w \in W : \/ req[w].op \notin DeviceFirst
                             \/ At(w, "swap", "commit") /\ req[w].old \notin {req[w].d, req[w].e}

(* The same comment read for the program as a whole: no circle of waits.   *)
NoDeadlock == \A W \in SUBSET Workers : ~Cycle(W)

(* schema.prisma calls "lost" a final status. *)
LostIsFinal ==
  [][\A b \in Bookings : booking[b].status = "lost" => booking'[b].status = "lost"]_vars

(* Every request ends: commits, is refused, or fails, and holds no lock.   *)
RequestsFinish ==
  \A w \in Workers : req[w] # Idle ~> req[w] = Idle /\ \A r \in Rows : ~Owns(w, r)

(* What the calendar promises, whatever the requests do. *)
Ledger == INSTANCE SlotLedger WITH
  held <- {[booking |-> b, device |-> booking[b].device, slot |-> booking[b].slot] :
             b \in {c \in Bookings : Active(c)}}

ImplementsLedger == Ledger!Spec
=============================================================================
