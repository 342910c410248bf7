----------------------- MODULE SlotReservationProofs -----------------------
(***************************************************************************)
(* Theorems about SlotReservation, for any number of requests, bookings,   *)
(* devices and periods.                                                    *)
(***************************************************************************)
EXTENDS SlotReservation, InductionLemmas, TLAPS

USE DevicesAreOrdered, SlotsArePeriods, EquivalentIsOnDevices, FormWritesStatuses,
    NoneIsNothing, OverdueAreBookings, RowsAreDistinct

-----------------------------------------------------------------------------
(* Typing *)

Typed == TypeOK /\ RequestsOK

(* The tables without the requests. *)
TablesOK ==
  /\ booking \in [Bookings -> BookingRow \union {Absent}]
  /\ device \in [Devices -> DeviceRow]
  /\ marks \in [Bookings -> SUBSET Marks]
  /\ returned \subseteq Bookings
  /\ lock \in [Rows -> Workers \union {None}]

LEMMA InitTyped == Init => Typed
  BY DEF Init, Typed, TypeOK, RequestsOK, RequestOK, Absent, Idle, Request, DeviceRow,
         DeviceStatuses, Rows, Marks, StatusWrites, BookingFirst, DeviceFirst, BookingRow,
         BookingStatuses, ActiveStatuses

LEMMA IdleOK == Idle \in Request /\ RequestOK(Idle)
  BY DEF Idle, Request, RequestOK, StatusWrites, BookingFirst

(* A booking row that exists keeps existing: what every step owes the      *)
(* requests of the other workers.                                          *)
RowsKept == \A b \in Bookings : booking[b] \in BookingRow => booking'[b] \in BookingRow

(* One worker's request changes, to one that is well formed. *)
LEMMA RequestTyped ==
  ASSUME Typed, NEW w \in Workers, NEW r \in Request,
         req' = [req EXCEPT ![w] = r], TablesOK', RowsKept, RequestOK(r)'
  PROVE  Typed'
  <1>1. TypeOK'
    BY DEF Typed, TypeOK, TablesOK
  <1>2. ASSUME NEW v \in Workers PROVE RequestOK(req[v])'
    <2>1. CASE v = w
      BY <2>1 DEF Typed, TypeOK
    <2>2. CASE v # w
      <3>1. req[v] \in Request /\ RequestOK(req[v]) /\ req'[v] = req[v]
        BY <2>2 DEF Typed, TypeOK, RequestsOK
      <3>2. QED BY <3>1 DEF RequestOK, RowsKept, StatusWrites, BookingFirst
    <2>3. QED BY <2>1, <2>2
  <1>3. QED BY <1>1, <1>2 DEF Typed, RequestsOK

(* Only the tables change. *)
LEMMA TablesTyped ==
  ASSUME Typed, req' = req, TablesOK', RowsKept
  PROVE  Typed'
  <1>1. TypeOK'
    BY DEF Typed, TypeOK, TablesOK
  <1>2. ASSUME NEW v \in Workers PROVE RequestOK(req[v])'
    BY DEF Typed, TypeOK, RequestsOK, RequestOK, RowsKept, StatusWrites, BookingFirst
  <1>3. QED BY <1>1, <1>2 DEF Typed, RequestsOK

LEMMA TablesOKNow == Typed => TablesOK
  BY DEF Typed, TypeOK, TablesOK

LEMMA UnchangedTables ==
  ASSUME Typed, UNCHANGED <<booking, device, marks, returned, lock>>
  PROVE  TablesOK' /\ RowsKept
  BY TablesOKNow DEF TablesOK, RowsKept

LEMMA ReleaseAllTyped ==
  ASSUME Typed, NEW w \in Workers, ReleaseAll(w)
  PROVE  lock' \in [Rows -> Workers \union {None}]
  BY DEF ReleaseAll, Typed, TypeOK

LEMMA TakeTyped ==
  ASSUME Typed, NEW w \in Workers, NEW row \in Rows, Take(w, row)
  PROVE  lock' \in [Rows -> Workers \union {None}]
  BY DEF Take, Typed, TypeOK

LEMMA RollbackTyped ==
  ASSUME Typed, NEW w \in Workers, Rollback(w)
  PROVE  Typed'
  <1>1. TablesOK' /\ RowsKept
    BY TablesOKNow, ReleaseAllTyped DEF Rollback, TablesOK, RowsKept
  <1>2. RequestOK(Idle)'
    BY DEF Idle, RequestOK, StatusWrites, BookingFirst
  <1>3. QED BY <1>1, <1>2, IdleOK, RequestTyped DEF Rollback, Finish

(* A worker goes on to a place that needs nothing more of its request. *)
LEMMA GotoTyped ==
  ASSUME Typed, NEW w \in Workers, TablesOK', RowsKept,
         NEW pc \in {"idle", "write", "freeDevice", "lockBooking", "lockDevice",
                    "lockFirst", "lockSecond", "check", "insert", "commit"},
         Goto(w, pc),
         req[w].op = "swap" /\ pc \in {"lockBooking", "commit"} => req[w].old \in Devices
  PROVE  Typed'
  <1>0. [req[w] EXCEPT !.pc = pc] \in Request
    BY DEF Typed, TypeOK, Request
  <1>1. PICK r \in Request : r = [req[w] EXCEPT !.pc = pc]
    BY <1>0
  <1>2. RequestOK(r)'
    <2>1. req[w] \in Request /\ RequestOK(req[w])
      BY DEF Typed, TypeOK, RequestsOK
    <2>2. /\ r.op = req[w].op /\ r.b = req[w].b /\ r.d = req[w].d /\ r.e = req[w].e
          /\ r.old = req[w].old /\ r.slot = req[w].slot /\ r.pc = pc
      BY <1>1, <2>1 DEF Request
    <2>3. QED BY <2>1, <2>2 DEF RequestOK, RowsKept, StatusWrites, BookingFirst
  <1>3. req' = [req EXCEPT ![w] = r]
    BY <1>1 DEF Goto
  <1>4. QED BY <1>1, <1>2, <1>3, RequestTyped

LEMMA ArriveTyped ==
  ASSUME Typed, NEW w \in Workers, Arrive(w)
  PROVE  Typed'
  <1> DEFINE New(r) == /\ r \in Request /\ RequestOK(r)'
                       /\ req' = [req EXCEPT ![w] = r]
                       /\ UNCHANGED <<booking, device, marks, returned, lock>>
  <1> SUFFICES \E r : New(r)
    BY UnchangedTables, RequestTyped
  <1> USE DEF Idle, Request, StatusWrites, BookingFirst, DeviceFirst
  <1>1. CASE BeginCreate(w)
    <2>1. PICK d \in Devices, s \in Slots :
            req' = [req EXCEPT ![w] = [Idle EXCEPT !.op = "create", !.pc = "lockDevice",
                                                   !.d = d, !.slot = s]]
      BY <1>1 DEF BeginCreate
    <2>2. New([Idle EXCEPT !.op = "create", !.pc = "lockDevice", !.d = d, !.slot = s])
      BY <1>1, <2>1 DEF BeginCreate, RequestOK
    <2>3. QED BY <2>2
  <1>2. ASSUME NEW b \in Bookings, NEW op \in StatusWrites, NEW d \in Devices \union {None},
               BeginStatusWrite(w, op, b, d), booking[b] \in BookingRow,
               op = "cancelOngoing" => d \in Devices
        PROVE  \E r : New(r)
    <2>1. New([Idle EXCEPT !.op = op, !.pc = "write", !.b = b, !.d = d])
      BY <1>2 DEF BeginStatusWrite, RequestOK
    <2>2. QED BY <2>1
  <1>3. ASSUME NEW b \in Bookings, NEW op \in BookingFirst, Begin(w, op, b),
               booking[b] \in BookingRow
        PROVE  \E r : New(r)
    <2>1. booking[b].device \in Devices
      BY <1>3 DEF BookingRow
    <2>2. New([Idle EXCEPT !.op = op, !.pc = "lockBooking", !.b = b, !.d = booking[b].device])
      BY <1>3, <2>1 DEF Begin, RequestOK
    <2>3. QED BY <2>2
  <1>4. ASSUME NEW b \in Bookings, NEW e \in Devices, BeginSwap(w, b, e),
               booking[b] \in BookingRow
        PROVE  \E r : New(r)
    <2>1. booking[b].device \in Devices
      BY <1>4 DEF BookingRow
    <2>2. New([Idle EXCEPT !.op = "swap", !.pc = "lockFirst", !.b = b,
                           !.d = booking[b].device, !.e = e])
      BY <1>4, <2>1 DEF BeginSwap, RequestOK
    <2>3. QED BY <2>2
  <1>5. ASSUME NEW b \in Bookings, booking[b] # Absent
        PROVE  booking[b] \in BookingRow /\ booking[b].device \in Devices
    BY <1>5 DEF Typed, TypeOK, BookingRow
  <1>6. ASSUME NEW b \in Bookings, BeginConfirm(w, b) \/ BeginExpire(w, b) \/ BeginCancel(w, b)
        PROVE  \E r : New(r)
    <2>1. booking[b] # Absent
      BY <1>6 DEF BeginConfirm, BeginExpire, BeginCancel, Absent
    <2>2. \E op \in StatusWrites, d \in Devices \union {None} :
            BeginStatusWrite(w, op, b, d) /\ (op = "cancelOngoing" => d \in Devices)
      BY <1>6, <2>1, <1>5 DEF BeginConfirm, BeginExpire, BeginCancel
    <2>3. QED BY <2>1, <2>2, <1>5, <1>2
  <1>7. ASSUME NEW b \in Bookings, \/ BeginStart(w, b) \/ BeginConfirmReturn(w, b)
                                   \/ BeginEndEarly(w, b) \/ BeginConfirmLost(w, b)
        PROVE  \E r : New(r)
    <2>1. booking[b] # Absent
      BY <1>7 DEF BeginStart, BeginConfirmReturn, BeginEndEarly, BeginConfirmLost, Absent
    <2>2. \E op \in BookingFirst : Begin(w, op, b)
      BY <1>7 DEF BeginStart, BeginConfirmReturn, BeginEndEarly, BeginConfirmLost
    <2>3. QED BY <2>1, <2>2, <1>5, <1>3
  <1>8. ASSUME NEW b \in Bookings, NEW e \in Devices, BeginSwap(w, b, e)
        PROVE  \E r : New(r)
    <2>1. booking[b] # Absent
      BY <1>8 DEF BeginSwap, Absent
    <2>2. QED BY <2>1, <1>8, <1>5, <1>4
  <1> HIDE DEF New
  <1>9. QED BY <1>1, <1>6, <1>7, <1>8 DEF Arrive

(* The row a step writes is well formed, and so is the table after it. *)
LEMMA RowWritten ==
  ASSUME Typed, NEW b \in Bookings, NEW row \in BookingRow,
         booking' = [booking EXCEPT ![b] = row]
  PROVE  booking' \in [Bookings -> BookingRow \union {Absent}] /\ RowsKept
  BY DEF Typed, TypeOK, RowsKept

LEMMA StatusChanged ==
  ASSUME NEW row \in BookingRow, NEW s \in BookingStatuses
  PROVE  [row EXCEPT !.status = s] \in BookingRow
  BY DEF BookingRow

LEMMA DeviceChanged ==
  ASSUME Typed, NEW d \in Devices, NEW s \in DeviceStatuses
  PROVE  [device[d] EXCEPT !.status = s] \in DeviceRow
  BY DEF Typed, TypeOK, DeviceRow

LEMMA DeviceTableChanged ==
  ASSUME NEW f \in [Devices -> DeviceRow], NEW d \in Devices, NEW s \in DeviceStatuses
  PROVE  [f EXCEPT ![d].status = s] \in [Devices -> DeviceRow]
  BY DEF DeviceRow

LEMMA DeviceWritten ==
  ASSUME Typed, NEW d \in Devices, NEW row \in DeviceRow,
         device' = [device EXCEPT ![d] = row]
  PROVE  device' \in [Devices -> DeviceRow]
  BY DEF Typed, TypeOK

LEMMA FinishTyped ==
  ASSUME Typed, NEW w \in Workers, Finish(w), TablesOK', RowsKept
  PROVE  Typed'
  <1>1. RequestOK(Idle)'
    BY DEF Idle, RequestOK, StatusWrites, BookingFirst
  <1>2. QED BY <1>1, IdleOK, RequestTyped DEF Finish

(* A lock is taken, the tables stay, the request goes on. *)
LEMMA LockStepTyped ==
  ASSUME Typed, NEW w \in Workers, NEW row \in Rows, Take(w, row),
         UNCHANGED <<booking, device, marks, returned>>,
         NEW pc \in {"lockSecond", "check", "commit"}, Goto(w, pc),
         req[w].op = "swap" /\ pc = "commit" => req[w].old \in Devices
  PROVE  Typed'
  <1>1. TablesOK' /\ RowsKept
    BY TablesOKNow, TakeTyped DEF TablesOK, RowsKept
  <1>2. QED BY <1>1, GotoTyped

LEMMA CommitTyped ==
  ASSUME Typed, NEW w \in Workers, NEW op \in BookingFirst, NEW s \in BookingStatuses,
         NEW row \in DeviceRow, CommitBookingFirst(w, op, s, row),
         marks' \in [Bookings -> SUBSET Marks], returned' \subseteq Bookings
  PROVE  Typed'
  <1>1. RequestOK(req[w]) /\ req[w].op = op
    BY DEF Typed, RequestsOK, CommitBookingFirst, At
  <1>2. req[w].b \in Bookings /\ booking[req[w].b] \in BookingRow /\ req[w].d \in Devices
    BY <1>1 DEF RequestOK
  <1>3. booking' \in [Bookings -> BookingRow \union {Absent}] /\ RowsKept
    BY <1>2, StatusChanged, RowWritten DEF CommitBookingFirst
  <1>4. device' \in [Devices -> DeviceRow]
    BY <1>2, DeviceWritten DEF CommitBookingFirst
  <1>5. TablesOK'
    BY <1>3, <1>4, ReleaseAllTyped DEF CommitBookingFirst, TablesOK
  <1>6. QED BY <1>3, <1>5, FinishTyped DEF CommitBookingFirst

LEMMA StepTyped ==
  ASSUME Typed, NEW w \in Workers, Step(w)
  PROVE  Typed'
  <1>1. RequestOK(req[w])
    BY DEF Typed, RequestsOK
  <1>2. /\ booking \in [Bookings -> BookingRow \union {Absent}]
        /\ marks \in [Bookings -> SUBSET Marks]
        /\ returned \subseteq Bookings
    BY DEF Typed, TypeOK
  <1>3. CASE LockCreateDevice(w)
    <2>1. req[w].d \in Rows /\ req[w].op = "create"
      BY <1>1, <1>3 DEF LockCreateDevice, At, RequestOK, Rows
    <2>2. QED BY <1>3, <2>1, LockStepTyped DEF LockCreateDevice
  <1>4. CASE CheckCreate(w)
    <2>1. CASE Goto(w, "insert") /\ UNCHANGED <<booking, device, marks, returned, lock>>
      BY <2>1, UnchangedTables, GotoTyped
    <2>2. QED BY <1>4, <2>1, RollbackTyped DEF CheckCreate
  <1>5. CASE InsertBooking(w)
    <2>1. ASSUME NEW b \in Bookings, booking' = [booking EXCEPT ![b] = NewRow(w)],
                 ReleaseAll(w), Finish(w), UNCHANGED <<device, marks, returned>>
          PROVE  Typed'
      <3>1. NewRow(w) \in BookingRow
        BY <1>1, <1>5 DEF InsertBooking, At, RequestOK, NewRow, BookingRow, BookingStatuses,
                          ActiveStatuses
      <3>2. TablesOK' /\ RowsKept
        BY <2>1, <3>1, RowWritten, ReleaseAllTyped, TablesOKNow DEF TablesOK
      <3>3. QED BY <2>1, <3>2, FinishTyped
    <2>2. QED BY <1>5, <2>1, RollbackTyped DEF InsertBooking
  <1>6. CASE WriteStatus(w)
    <2> DEFINE row == [booking[req[w].b] EXCEPT !.status = WrittenStatus(req[w].op)]
    <2>1. CASE /\ booking' = [booking EXCEPT ![req[w].b] = row]
               /\ Goto(w, "freeDevice") \/ Finish(w)
               /\ UNCHANGED <<device, marks, returned, lock>>
      <3>1. req[w].b \in Bookings /\ booking[req[w].b] \in BookingRow
        BY <1>1, <1>6 DEF WriteStatus, RequestOK
      <3>2. row \in BookingRow
        BY <3>1, StatusChanged DEF WrittenStatus, BookingStatuses, ActiveStatuses
      <3> HIDE DEF row
      <3>3. TablesOK' /\ RowsKept
        BY <2>1, <3>1, <3>2, RowWritten, TablesOKNow DEF TablesOK
      <3>4. req[w].op # "swap"
        BY <1>6 DEF WriteStatus, StatusWrites
      <3>5. QED BY <2>1, <3>3, <3>4, FinishTyped, GotoTyped
    <2>2. QED BY <1>6, <2>1, RollbackTyped DEF WriteStatus
  <1>7. CASE FreeDevice(w)
    <2>1. req[w].d \in Devices
      BY <1>1, <1>7 DEF FreeDevice, At, RequestOK
    <2>2. device' \in [Devices -> DeviceRow]
      BY <1>7, <2>1 DEF FreeDevice, Typed, TypeOK, DeviceRow, DeviceStatuses
    <2>3. TablesOK' /\ RowsKept
      BY <1>7, <2>2, TablesOKNow DEF FreeDevice, TablesOK, RowsKept
    <2>4. QED BY <1>7, <2>3, FinishTyped DEF FreeDevice
  <1>8. CASE LockBooking(w)
    <2>1. req[w].b \in Rows /\ req[w].op # "swap"
      BY <1>1, <1>8 DEF LockBooking, RequestOK, Rows, BookingFirst
    <2>2. QED BY <1>8, <2>1, LockStepTyped DEF LockBooking
  <1>9. CASE RefuseStart(w) \/ RefuseReturn(w)
    BY <1>9, RollbackTyped DEF RefuseStart, RefuseReturn
  <1>10. CASE Start(w) \/ ConfirmReturn(w) \/ EndEarly(w)
    <2>1. req[w].d \in Devices /\ req[w].b \in Bookings
      BY <1>1, <1>10 DEF Start, ConfirmReturn, EndEarly, CommitBookingFirst, At, RequestOK,
                         BookingFirst
    <2>2. \A s \in {"available", "rented", "maintenance"} :
            [device[req[w].d] EXCEPT !.status = s] \in DeviceRow
      BY <2>1, DeviceChanged DEF DeviceStatuses
    <2>3. /\ marks' \in [Bookings -> SUBSET Marks]
          /\ returned' \subseteq Bookings
      BY <1>2, <1>10, <2>1 DEF Start, ConfirmReturn, EndEarly
    <2>4. "ongoing" \in BookingStatuses /\ "completed" \in BookingStatuses
      BY DEF BookingStatuses, ActiveStatuses
    <2>5. QED BY <1>10, <2>2, <2>3, <2>4, CommitTyped DEF Start, ConfirmReturn, EndEarly, BookingFirst
  <1>11. CASE ConfirmLost(w)
    <2>1. [status |-> "lost", isDiscontinued |-> TRUE] \in DeviceRow /\ "lost" \in BookingStatuses
      BY DEF DeviceRow, DeviceStatuses, BookingStatuses
    <2>2. QED BY <1>2, <1>11, <2>1, CommitTyped DEF ConfirmLost, BookingFirst
  <1>12. CASE LockSwapFirst(w) \/ LockSwapSecond(w)
    <2>1. req[w].d \in Devices /\ req[w].e \in Devices /\ req[w].op = "swap"
      BY <1>1, <1>12 DEF LockSwapFirst, LockSwapSecond, At, RequestOK
    <2>2. LockOrder(w)[1] \in Rows /\ LockOrder(w)[2] \in Rows
      BY <2>1 DEF LockOrder, Rows
    <2>3. QED BY <1>12, <2>2, LockStepTyped DEF LockSwapFirst, LockSwapSecond
  <1>13. CASE CheckSwap(w)
    <2>1. CASE /\ CanReplace(req[w].b, req[w].e)
               /\ req' = [req EXCEPT ![w].pc = "lockBooking", ![w].old = booking[req[w].b].device]
               /\ UNCHANGED <<booking, device, marks, returned, lock>>
      <3>1. req[w].op = "swap" /\ req[w] \in Request /\ booking[req[w].b] \in BookingRow
        BY <1>1, <1>13 DEF CheckSwap, At, RequestOK, Typed, TypeOK
      <3>2. booking[req[w].b].device \in Devices
        BY <3>1 DEF BookingRow
      <3>3. [req[w] EXCEPT !.pc = "lockBooking", !.old = booking[req[w].b].device] \in Request
        BY <3>1, <3>2 DEF Request
      <3>4. PICK r \in Request :
              r = [req[w] EXCEPT !.pc = "lockBooking", !.old = booking[req[w].b].device]
        BY <3>3
      <3>5. /\ r.op = req[w].op /\ r.b = req[w].b /\ r.d = req[w].d /\ r.e = req[w].e
            /\ r.old \in Devices
        BY <3>1, <3>2, <3>4 DEF Request
      <3>6. RequestOK(r)'
        BY <1>1, <2>1, <3>1, <3>5 DEF RequestOK, StatusWrites, BookingFirst
      <3>7. req' = [req EXCEPT ![w] = r]
        BY <2>1, <3>4 DEF Typed, TypeOK
      <3>8. QED BY <2>1, <3>6, <3>7, UnchangedTables, RequestTyped
    <2>2. QED BY <1>13, <2>1, RollbackTyped DEF CheckSwap
  <1>14. CASE LockSwapBooking(w)
    <2>1. req[w].b \in Rows /\ req[w].old \in Devices
      BY <1>1, <1>14 DEF LockSwapBooking, At, RequestOK, Rows
    <2>2. QED BY <1>14, <2>1, LockStepTyped DEF LockSwapBooking
  <1>15. CASE SwapDevice(w)
    <2> DEFINE row == [booking[req[w].b] EXCEPT !.device = req[w].e]
    <2>1. CASE /\ booking' = [booking EXCEPT ![req[w].b] = row]
               /\ device' = [device EXCEPT ![req[w].old].status = "maintenance",
                                            ![req[w].e].status = "rented"]
               /\ marks' = [marks EXCEPT ![req[w].b] = @ \ {"reported"}]
               /\ ReleaseAll(w) /\ Finish(w) /\ UNCHANGED returned
      <3>1. /\ req[w].b \in Bookings /\ booking[req[w].b] \in BookingRow
            /\ req[w].e \in Devices /\ req[w].old \in Devices
        BY <1>1, <1>15 DEF SwapDevice, At, RequestOK
      <3>2. row \in BookingRow
        BY <3>1 DEF BookingRow
      <3>3. booking' \in [Bookings -> BookingRow \union {Absent}] /\ RowsKept
        <4> HIDE DEF row
        <4>1. QED BY <2>1, <3>1, <3>2, RowWritten
      <3>4. device' \in [Devices -> DeviceRow]
        <4>1. [device EXCEPT ![req[w].old].status = "maintenance"] \in [Devices -> DeviceRow]
          BY <3>1, DeviceTableChanged DEF Typed, TypeOK, DeviceStatuses
        <4>2. [[device EXCEPT ![req[w].old].status = "maintenance"]
                 EXCEPT ![req[w].e].status = "rented"] \in [Devices -> DeviceRow]
          BY <3>1, <4>1, DeviceTableChanged DEF DeviceStatuses
        <4>3. QED BY <2>1, <4>2
      <3>5. marks' \in [Bookings -> SUBSET Marks]
        BY <1>2, <2>1, <3>1
      <3>6. TablesOK'
        BY <2>1, <3>3, <3>4, <3>5, ReleaseAllTyped, <1>2 DEF TablesOK
      <3>7. QED BY <2>1, <3>3, <3>6, FinishTyped
    <2>2. QED BY <1>15, <2>1, RollbackTyped DEF SwapDevice
  <1>16. QED
    BY <1>3, <1>4, <1>5, <1>6, <1>7, <1>8, <1>9, <1>10, <1>11, <1>12, <1>13, <1>14, <1>15 DEF Step

LEMMA RecordTyped ==
  ASSUME Typed,
         \/ \E b \in Bookings : \/ ConfirmAfterPayment(b) \/ CounterSteps(b)
                                \/ Report(b) \/ ChargeCustomerFault(b) \/ FlagSuspectedLost(b)
         \/ \E d \in Devices, s \in FormStatuses : SetDeviceStatus(d, s)
  PROVE  Typed'
  <1>1. CASE \E b \in Bookings : ConfirmAfterPayment(b)
    <2>1. TablesOK' /\ RowsKept /\ req' = req
      BY <1>1 DEF ConfirmAfterPayment, BookingRow, BookingStatuses, ActiveStatuses, Absent,
                  Typed, TypeOK, TablesOK, RowsKept
    <2>2. QED BY <2>1, TablesTyped
  <1>2. CASE \E b \in Bookings : \/ CounterSteps(b) \/ Report(b)
                                  \/ ChargeCustomerFault(b) \/ FlagSuspectedLost(b)
    <2>1. TablesOK' /\ RowsKept /\ req' = req
      BY <1>2 DEF CounterSteps, Report, ChargeCustomerFault, FlagSuspectedLost, Marks,
                  Typed, TypeOK, TablesOK, RowsKept
    <2>2. QED BY <2>1, TablesTyped
  <1>3. CASE \E d \in Devices, s \in FormStatuses : SetDeviceStatus(d, s)
    <2>1. TablesOK' /\ RowsKept /\ req' = req
      BY <1>3 DEF SetDeviceStatus, DeviceRow, DeviceStatuses,
                  Typed, TypeOK, TablesOK, RowsKept
    <2>2. QED BY <2>1, TablesTyped
  <1>4. QED BY <1>1, <1>2, <1>3

(* Every row and every request stays well formed, in particular no handler *)
(* writes a booking that was never created.                                *)
THEOREM AlwaysTyped == Spec => [](TypeOK /\ RequestsOK)
  <1>1. Typed /\ [Next]_vars => Typed'
    <2> SUFFICES ASSUME Typed, [Next]_vars PROVE Typed'
      OBVIOUS
    <2>1. CASE UNCHANGED vars
      BY <2>1, UnchangedTables, TablesTyped DEF vars
    <2>2. ASSUME NEW w \in Workers, Arrive(w) \/ Step(w) \/ Fail(w) \/ DeadlockVictim(w)
          PROVE  Typed'
      BY <2>2, ArriveTyped, StepTyped, RollbackTyped DEF Fail, DeadlockVictim
    <2>3. QED BY <2>1, <2>2, RecordTyped DEF Next
  <1>2. QED BY InitTyped, <1>1, PTL DEF Spec, Typed

-----------------------------------------------------------------------------
(* The calendar *)

LEMMA AcceptedWrite ==
  ASSUME Typed, NoOverlap, NEW b \in Bookings, NEW row \in BookingRow,
         ConstraintAccepts(b, row), booking' = [booking EXCEPT ![b] = row]
  PROVE  NoOverlap'
  <1> SUFFICES ASSUME NEW c \in Bookings, NEW e \in Bookings, c # e, Active(c)', Active(e)',
                      booking'[c].device = booking'[e].device
               PROVE  ~Overlaps(booking'[c].slot, booking'[e].slot)
    BY DEF NoOverlap, Overlaps
  <1>1. \A x \in Bookings : booking'[x] = IF x = b THEN row ELSE booking[x]
    BY DEF Typed, TypeOK
  <1>2. ASSUME NEW x \in Bookings, x # b, booking[x].status \in ActiveStatuses,
               row.status \in ActiveStatuses, booking[x].device = row.device
        PROVE  ~Overlaps(booking[x].slot, row.slot)
    BY <1>2 DEF ConstraintAccepts, Overlapping, Active
  <1>3. CASE c = b
    BY <1>1, <1>2, <1>3 DEF Active, Overlaps
  <1>4. CASE e = b
    BY <1>1, <1>2, <1>4 DEF Active, Overlaps
  <1>5. CASE c # b /\ e # b
    BY <1>1, <1>5 DEF NoOverlap, Active
  <1>6. QED BY <1>3, <1>4, <1>5

(* A write of the bookings table that the constraint lets through; the     *)
(* period of a booking never changes.                                      *)
AcceptedChange(b, row) ==
  /\ ConstraintAccepts(b, row)
  /\ booking' = [booking EXCEPT ![b] = row]
  /\ booking[b] = Absent \/ row.slot = booking[b].slot

CalendarStep == \E b \in Bookings, row \in BookingRow : AcceptedChange(b, row)

LEMMA StepIsAccepted ==
  ASSUME Typed, NEW w \in Workers, Step(w)
  PROVE  booking' = booking \/ CalendarStep
  <1>1. RequestOK(req[w])
    BY DEF Typed, RequestsOK
  <1>2. CASE \E b \in Bookings : /\ ConstraintAccepts(b, NewRow(w)) /\ At(w, "create", "insert")
                                 /\ booking[b] = Absent
                                 /\ booking' = [booking EXCEPT ![b] = NewRow(w)]
    <2>1. NewRow(w) \in BookingRow
      BY <1>1, <1>2 DEF At, RequestOK, NewRow, BookingRow, BookingStatuses, ActiveStatuses
    <2>2. QED BY <1>2, <2>1 DEF CalendarStep, AcceptedChange
  <1>3. ASSUME NEW s \in BookingStatuses,
               req[w].op \in StatusWrites \union BookingFirst,
               ConstraintAccepts(req[w].b, [booking[req[w].b] EXCEPT !.status = s]),
               booking' = [booking EXCEPT ![req[w].b] = [booking[req[w].b] EXCEPT !.status = s]]
        PROVE  CalendarStep
    <2>1. /\ req[w].b \in Bookings
          /\ [booking[req[w].b] EXCEPT !.status = s] \in BookingRow
          /\ [booking[req[w].b] EXCEPT !.status = s].slot = booking[req[w].b].slot
      BY <1>1, <1>3, StatusChanged DEF RequestOK, BookingRow
    <2>2. QED BY <1>3, <2>1 DEF CalendarStep, AcceptedChange
  <1>4. CASE /\ req[w].op = "swap"
             /\ ConstraintAccepts(req[w].b, [booking[req[w].b] EXCEPT !.device = req[w].e])
             /\ booking' = [booking EXCEPT ![req[w].b] =
                                       [booking[req[w].b] EXCEPT !.device = req[w].e]]
    <2>1. /\ req[w].b \in Bookings
          /\ [booking[req[w].b] EXCEPT !.device = req[w].e] \in BookingRow
          /\ [booking[req[w].b] EXCEPT !.device = req[w].e].slot = booking[req[w].b].slot
      BY <1>1, <1>4 DEF RequestOK, BookingRow
    <2>2. QED BY <1>4, <2>1 DEF CalendarStep, AcceptedChange
  <1>5. /\ "ongoing" \in BookingStatuses /\ "completed" \in BookingStatuses
        /\ "lost" \in BookingStatuses
        /\ \A op \in StatusWrites : WrittenStatus(op) \in BookingStatuses
    BY DEF BookingStatuses, ActiveStatuses, WrittenStatus
  <1>6. WriteStatus(w) => booking' = booking \/ CalendarStep
    BY <1>3, <1>5 DEF WriteStatus, Rollback
  <1>7. Start(w) \/ ConfirmReturn(w) \/ EndEarly(w) \/ ConfirmLost(w) => CalendarStep
    BY <1>3, <1>5 DEF Start, ConfirmReturn, EndEarly, ConfirmLost, CommitBookingFirst, At,
                      BookingFirst
  <1>8. InsertBooking(w) => booking' = booking \/ CalendarStep
    BY <1>2 DEF InsertBooking, Rollback
  <1>9. SwapDevice(w) => booking' = booking \/ CalendarStep
    BY <1>4 DEF SwapDevice, Rollback, At
  <1>10. LockCreateDevice(w) \/ CheckCreate(w) \/ FreeDevice(w) \/ LockBooking(w) \/ RefuseStart(w) \/ RefuseReturn(w)
         \/ LockSwapFirst(w) \/ LockSwapSecond(w) \/ CheckSwap(w) \/ LockSwapBooking(w)
           => booking' = booking
    BY DEF LockCreateDevice, CheckCreate, FreeDevice, LockBooking, RefuseStart, RefuseReturn, LockSwapFirst,
           LockSwapSecond, CheckSwap, LockSwapBooking, Rollback
  <1>11. QED BY <1>6, <1>7, <1>8, <1>9, <1>10 DEF Step

(* The webhook's write needs no constraint: the booking is active already. *)
LEMMA ConfirmIsAccepted ==
  ASSUME Typed, NoOverlap, NEW b \in Bookings, ConfirmAfterPayment(b)
  PROVE  CalendarStep
  <1>1. booking[b] \in BookingRow /\ Active(b) /\ "confirmed" \in BookingStatuses
    BY DEF ConfirmAfterPayment, Typed, TypeOK, Absent, Active, ActiveStatuses, BookingStatuses
  <1>2. PICK row \in BookingRow : row = [booking[b] EXCEPT !.status = "confirmed"]
    BY <1>1, StatusChanged
  <1>3. row.device = booking[b].device /\ row.slot = booking[b].slot
    BY <1>1, <1>2 DEF BookingRow
  <1>4. ConstraintAccepts(b, row)
    BY <1>1, <1>3 DEF ConstraintAccepts, Overlapping, NoOverlap
  <1>5. QED BY <1>2, <1>3, <1>4 DEF ConfirmAfterPayment, CalendarStep, AcceptedChange

LEMMA NextIsAccepted ==
  ASSUME Typed, NoOverlap, [Next]_vars
  PROVE  booking' = booking \/ CalendarStep
  <1>1. ASSUME NEW w \in Workers, Arrive(w) \/ Fail(w) \/ DeadlockVictim(w)
        PROVE  booking' = booking
    BY <1>1 DEF Arrive, BeginCreate, BeginConfirm, BeginExpire, BeginCancel, BeginStatusWrite,
                BeginStart, BeginConfirmReturn, BeginEndEarly, BeginConfirmLost, Begin,
                BeginSwap, Fail, DeadlockVictim, Rollback
  <1>2. ASSUME NEW b \in Bookings,
               \/ CounterSteps(b) \/ Report(b) \/ ChargeCustomerFault(b) \/ FlagSuspectedLost(b)
        PROVE  booking' = booking
    BY <1>2 DEF CounterSteps, Report, ChargeCustomerFault, FlagSuspectedLost
  <1>3. (\E d \in Devices, s \in FormStatuses : SetDeviceStatus(d, s)) => booking' = booking
    BY DEF SetDeviceStatus
  <1>4. UNCHANGED vars => booking' = booking
    BY DEF vars
  <1>5. QED BY <1>1, <1>2, <1>3, <1>4, StepIsAccepted, ConfirmIsAccepted DEF Next

LEMMA InitCalendar == Init => NoOverlap
  BY DEF Init, NoOverlap, Active, Absent, ActiveStatuses

(* No two active bookings of one device overlap: for any number of         *)
(* requests, including those that act on a booking row read long ago.      *)
THEOREM NeverOverlaps == Spec => []NoOverlap
  <1>1. Typed /\ NoOverlap /\ [Next]_vars => NoOverlap'
    <2>1. booking' = booking /\ NoOverlap => NoOverlap'
      BY DEF NoOverlap, Active, Overlaps
    <2>2. QED BY <2>1, NextIsAccepted, AcceptedWrite DEF CalendarStep, AcceptedChange
  <1>2. Spec => []Typed
    BY AlwaysTyped DEF Typed
  <1>3. QED BY InitCalendar, <1>1, <1>2, PTL DEF Spec

(* The ledger of SlotLedger, as the mapping of ImplementsLedger computes it. *)
Entry(b) == [booking |-> b, device |-> booking[b].device, slot |-> booking[b].slot]
Held == {Entry(b) : b \in {c \in Bookings : Active(c)}}

LEMMA EntryIsHolding ==
  ASSUME Typed, NEW b \in Bookings, booking[b] \in BookingRow
  PROVE  Entry(b) \in Ledger!Holding
  BY DEF Entry, Ledger!Holding, BookingRow

(* An accepted change reserves, releases or moves one entry, or none. *)
LEMMA ChangeIsLedgerStep ==
  ASSUME Typed, NEW b \in Bookings, NEW row \in BookingRow, AcceptedChange(b, row)
  PROVE  \/ Held' = Held
         \/ \E h \in Ledger!Holding : \/ Ledger!Reserve(h)
                                      \/ Ledger!Release(h)
                                      \/ \E d \in Devices : Ledger!Move(h, d)
  <1> DEFINE new == [booking |-> b, device |-> row.device, slot |-> row.slot]
  <1>1. \A c \in Bookings : booking'[c] = IF c = b THEN row ELSE booking[c]
    BY DEF AcceptedChange, Typed, TypeOK
  <1>2. /\ \A c \in Bookings \ {b} : Entry(c)' = Entry(c) /\ (Active(c)' <=> Active(c))
        /\ Entry(b)' = new
        /\ Active(b)' <=> row.status \in ActiveStatuses
    BY <1>1 DEF Entry, Active
  <1>3. new \in Ledger!Holding
    BY DEF Ledger!Holding, BookingRow
  <1>4. Active(b) => /\ booking[b] \in BookingRow
                     /\ new = [Entry(b) EXCEPT !.device = row.device]
                     /\ row.device \in Devices
    BY DEF Active, ActiveStatuses, Absent, AcceptedChange, Typed, TypeOK, Entry, BookingRow
  <1>5. row.status \in ActiveStatuses =>
          \A g \in Held : g.booking # b => ~Ledger!Clash(g, new)
    <2> SUFFICES ASSUME row.status \in ActiveStatuses, NEW c \in Bookings, Active(c), c # b,
                        booking[c].device = row.device
                 PROVE  ~Overlaps(booking[c].slot, row.slot)
      BY DEF Held, Entry, Ledger!Clash, Ledger!Overlaps, Overlaps
    <2>1. QED BY DEF AcceptedChange, ConstraintAccepts, Overlapping
  <1>6. \A g \in Held : (g.booking = b) <=> (g = Entry(b))
    BY DEF Held, Entry
  <1>7. Active(b) <=> Entry(b) \in Held
    BY DEF Held, Entry
  <1>8. Held' = (Held \ {Entry(b)}) \union (IF row.status \in ActiveStatuses THEN {new} ELSE {})
    <2>1. Held' = {Entry(c)' : c \in {x \in Bookings : Active(x)'}}
      BY DEF Held
    <2>2. Held \ {Entry(b)} = {Entry(c) : c \in {x \in Bookings \ {b} : Active(x)}}
      BY DEF Held, Entry
    <2> HIDE DEF new
    <2>3. QED BY <1>2, <2>1, <2>2
  <1> HIDE DEF new
  <1>9. CASE ~Active(b) /\ row.status \notin ActiveStatuses
    BY <1>7, <1>8, <1>9
  <1>10. CASE ~Active(b) /\ row.status \in ActiveStatuses
    <2>1. Ledger!Reserve(new)
      <3>1. new.booking = b
        BY DEF new
      <3>2. Held' = Held \union {new}
        BY <1>7, <1>8, <1>10
      <3>3. QED BY <1>5, <1>6, <1>7, <1>10, <3>1, <3>2 DEF Ledger!Reserve, Held, Entry
    <2>2. QED BY <1>3, <2>1
  <1>11. CASE Active(b) /\ row.status \notin ActiveStatuses
    <2>1. PICK h \in Ledger!Holding : h = Entry(b)
      BY <1>4, <1>11, EntryIsHolding
    <2>2. Ledger!Release(h)
      BY <1>7, <1>8, <1>11, <2>1 DEF Ledger!Release, Held, Entry
    <2>3. QED BY <2>2
  <1>12. CASE Active(b) /\ row.status \in ActiveStatuses
    <2>1. Ledger!Move(Entry(b), row.device)
      BY <1>4, <1>5, <1>6, <1>7, <1>8, <1>12 DEF Ledger!Move, Held, Entry
    <2>2. QED BY <1>4, <1>12, <2>1, EntryIsHolding
  <1>13. QED BY <1>9, <1>10, <1>11, <1>12

(* SlotReservation implements SlotLedger: behind all the requests, locks   *)
(* and statuses there is a ledger whose entries never clash.               *)
THEOREM LedgerIsImplemented == Spec => ImplementsLedger
  <1>1. Init => Ledger!Init
    BY DEF Init, Ledger!Init, Active, Absent, ActiveStatuses
  <1>2. Typed /\ NoOverlap /\ [Next]_vars => [Ledger!Next]_Held
    <2> SUFFICES ASSUME Typed, NoOverlap, [Next]_vars PROVE [Ledger!Next]_Held
      OBVIOUS
    <2>1. CASE booking' = booking
      BY <2>1 DEF Held, Entry, Active
    <2>2. CASE CalendarStep
      BY <2>2, ChangeIsLedgerStep DEF CalendarStep, Ledger!Next
    <2>3. QED BY <2>1, <2>2, NextIsAccepted
  <1>3. Spec => []Typed /\ []NoOverlap
    BY AlwaysTyped, NeverOverlaps, PTL DEF Typed
  <1>4. QED BY <1>1, <1>2, <1>3, PTL DEF Spec, ImplementsLedger, Ledger!Spec, Held, Entry

-----------------------------------------------------------------------------
(* Row locks, and what was checked under them *)

Guarded(w) == HoldsRows(w) /\ CheckHolds(w)

(* What one worker's step leaves to another: its request, its locks, and   *)
(* the device rows it has locked.                                          *)
LeavesAlone(v) ==
  /\ req'[v] = req[v]
  /\ \A row \in Rows : Owns(v, row) => Owns(v, row)'
  /\ \A d \in Devices : Owns(v, d) => device'[d] = device[d]

LEMMA LeftAlone ==
  ASSUME Typed, NEW v \in Workers, Guarded(v), LeavesAlone(v)
  PROVE  Guarded(v)'
  <1>1. RequestOK(req[v])
    BY DEF Typed, RequestsOK
  <1>2. req[v].op \in DeviceFirst => req[v].d \in Devices
    BY <1>1 DEF RequestOK, DeviceFirst
  <1>3. req[v].op = "swap" => /\ req[v].e \in Devices /\ req[v].b \in Bookings
                              /\ LockOrder(v)[1] \in Devices
    BY <1>1 DEF RequestOK, LockOrder
  <1>4. req[v].op \in BookingFirst => req[v].b \in Bookings
    BY <1>1 DEF RequestOK
  <1>5. LockOrder(v)' = LockOrder(v)
    BY DEF LeavesAlone, LockOrder
  <1>6. HoldsRows(v)'
    BY <1>2, <1>3, <1>4, <1>5 DEF Guarded, HoldsRows, LeavesAlone, Rows, DeviceFirst, Owns
  <1>7. CheckHolds(v)'
    BY <1>2, <1>3 DEF Guarded, HoldsRows, CheckHolds, LeavesAlone, DeviceFirst
  <1>8. QED BY <1>6, <1>7 DEF Guarded

(* The three things a step does to the locks. *)
LEMMA LocksOfOthers ==
  ASSUME Typed, NEW w \in Workers, NEW v \in Workers \ {w},
         \/ lock' = lock
         \/ ReleaseAll(w)
         \/ \E row \in Rows : Free(row) /\ Take(w, row)
  PROVE  \A row \in Rows : Owns(v, row) => Owns(v, row)'
  BY DEF Typed, TypeOK, ReleaseAll, Take, Free, Owns

(* A device row is written by its holder, or while nobody holds it. *)
LEMMA DevicesOfOthers ==
  ASSUME Typed, NEW w \in Workers, NEW v \in Workers \ {w},
         NEW d \in Devices, Free(d) \/ Owns(w, d),
         NEW row \in DeviceRow, device' = [device EXCEPT ![d] = row]
  PROVE  \A e \in Devices : Owns(v, e) => device'[e] = device[e]
  BY DEF Typed, TypeOK, Free, Owns

LEMMA RequestsOfOthers ==
  ASSUME Typed, NEW w \in Workers, NEW v \in Workers \ {w}, NEW r,
         req' = [req EXCEPT ![w] = r]
  PROVE  req'[v] = req[v]
  BY DEF Typed, TypeOK

LEMMA RollbackGuarded ==
  ASSUME Typed, NEW w \in Workers, Rollback(w), \A v \in Workers : Guarded(v)
  PROVE  \A v \in Workers : Guarded(v)'
  <1>1. ASSUME NEW v \in Workers \ {w} PROVE Guarded(v)'
    BY <1>1, LocksOfOthers, RequestsOfOthers, LeftAlone DEF Rollback, Finish, LeavesAlone
  <1>2. req'[w] = Idle
    BY DEF Rollback, Finish, Typed, TypeOK
  <1>3. Guarded(w)'
    BY <1>2 DEF Guarded, HoldsRows, CheckHolds, Idle, BookingFirst
  <1>4. QED BY <1>1, <1>3

LEMMA ArriveGuarded ==
  ASSUME Typed, NEW w \in Workers, Arrive(w), \A v \in Workers : Guarded(v)
  PROVE  \A v \in Workers : Guarded(v)'
  <1> DEFINE New(r) == /\ req' = [req EXCEPT ![w] = r]
                       /\ \/ r.op = "create" /\ r.pc = "lockDevice"
                          \/ r.op \in StatusWrites /\ r.pc = "write"
                          \/ r.op \in BookingFirst /\ r.pc = "lockBooking"
                          \/ r.op = "swap" /\ r.pc = "lockFirst"
  <1>1. (\E r : New(r)) /\ UNCHANGED <<device, lock>>
    <2>1. BeginCreate(w) => \E r : New(r)
      <3> SUFFICES ASSUME BeginCreate(w) PROVE \E r : New(r)
        OBVIOUS
      <3>1. PICK d \in Devices, s \in Slots :
              req' = [req EXCEPT ![w] = [Idle EXCEPT !.op = "create", !.pc = "lockDevice",
                                                     !.d = d, !.slot = s]]
        BY DEF BeginCreate
      <3>2. New([Idle EXCEPT !.op = "create", !.pc = "lockDevice", !.d = d, !.slot = s])
        BY <3>1 DEF Idle
      <3>3. QED BY <3>2
    <2>2. ASSUME NEW b \in Bookings, NEW op \in StatusWrites, NEW d, BeginStatusWrite(w, op, b, d)
          PROVE  \E r : New(r)
      <3>1. New([Idle EXCEPT !.op = op, !.pc = "write", !.b = b, !.d = d])
        BY <2>2 DEF BeginStatusWrite, Idle
      <3>2. QED BY <3>1
    <2>3. ASSUME NEW b \in Bookings, NEW op \in BookingFirst, Begin(w, op, b)
          PROVE  \E r : New(r)
      <3>1. New([Idle EXCEPT !.op = op, !.pc = "lockBooking", !.b = b, !.d = booking[b].device])
        BY <2>3 DEF Begin, Idle
      <3>2. QED BY <3>1
    <2>4. ASSUME NEW b \in Bookings, NEW e \in Devices, BeginSwap(w, b, e)
          PROVE  \E r : New(r)
      <3>1. New([Idle EXCEPT !.op = "swap", !.pc = "lockFirst", !.b = b,
                             !.d = booking[b].device, !.e = e])
        BY <2>4 DEF BeginSwap, Idle
      <3>2. QED BY <3>1
    <2> HIDE DEF New
    <2>5. ASSUME NEW b \in Bookings, BeginConfirm(w, b) \/ BeginExpire(w, b) \/ BeginCancel(w, b)
          PROVE  \E r : New(r)
      BY <2>2, <2>5 DEF BeginConfirm, BeginExpire, BeginCancel, StatusWrites
    <2>6. ASSUME NEW b \in Bookings, \/ BeginStart(w, b) \/ BeginConfirmReturn(w, b)
                                     \/ BeginEndEarly(w, b) \/ BeginConfirmLost(w, b)
          PROVE  \E r : New(r)
      BY <2>3, <2>6 DEF BeginStart, BeginConfirmReturn, BeginEndEarly, BeginConfirmLost, BookingFirst
    <2>7. UNCHANGED <<device, lock>>
      BY DEF Arrive, BeginCreate, BeginConfirm, BeginExpire, BeginCancel, BeginStatusWrite,
             BeginStart, BeginConfirmReturn, BeginEndEarly, BeginConfirmLost, Begin, BeginSwap
    <2>8. QED BY <2>1, <2>4, <2>5, <2>6, <2>7 DEF Arrive
  <1>2. PICK r : New(r)
    BY <1>1
  <1>3. ASSUME NEW v \in Workers \ {w} PROVE Guarded(v)'
    <2>1. LeavesAlone(v)
      BY <1>1, <1>2, <1>3, LocksOfOthers, RequestsOfOthers DEF LeavesAlone
    <2>2. QED BY <2>1, <1>3, LeftAlone
  <1>4. req'[w] = r
    BY <1>2 DEF Typed, TypeOK
  <1>5. Guarded(w)'
    BY <1>2, <1>4 DEF Guarded, HoldsRows, CheckHolds, BookingFirst, StatusWrites
  <1>6. QED BY <1>3, <1>5

(* A worker that goes on with what it holds, or with one more row. *)
LEMMA GotoOthers ==
  ASSUME Typed, NEW w \in Workers, NEW pc, Goto(w, pc), device' = device,
         lock' = lock \/ \E row \in Rows : Free(row) /\ Take(w, row),
         \A v \in Workers : Guarded(v)
  PROVE  \A v \in Workers \ {w} : Guarded(v)'
  <1> SUFFICES ASSUME NEW v \in Workers \ {w} PROVE Guarded(v)'
    OBVIOUS
  <1>1. req'[v] = req[v]
    BY DEF Goto, Typed, TypeOK
  <1>2. LeavesAlone(v)
    BY <1>1, LocksOfOthers DEF LeavesAlone
  <1>3. QED BY <1>2, LeftAlone

LEMMA GotoOwn ==
  ASSUME Typed, NEW w \in Workers, NEW pc, Goto(w, pc)
  PROVE  /\ req'[w].pc = pc /\ req'[w].op = req[w].op /\ req'[w].b = req[w].b
         /\ req'[w].d = req[w].d /\ req'[w].e = req[w].e
  BY DEF Goto, Typed, TypeOK, Request

LEMMA TakeOwn ==
  ASSUME Typed, NEW w \in Workers, NEW row \in Rows, Take(w, row)
  PROVE  Owns(w, row)' /\ \A r \in Rows : Owns(w, r) => Owns(w, r)'
  BY DEF Typed, TypeOK, Take, Owns

(* A commit: one device row, held or free, every lock given back. *)
LEMMA CommitGuarded ==
  ASSUME Typed, NEW w \in Workers, ReleaseAll(w) \/ lock' = lock, Finish(w),
         \/ device' = device
         \/ \E d \in Devices, row \in DeviceRow : /\ Free(d) \/ Owns(w, d)
                                                /\ device' = [device EXCEPT ![d] = row],
         \A v \in Workers : Guarded(v)
  PROVE  \A v \in Workers : Guarded(v)'
  <1>1. ASSUME NEW v \in Workers \ {w} PROVE Guarded(v)'
    <2>1. req'[v] = req[v]
      BY RequestsOfOthers DEF Finish
    <2>2. LeavesAlone(v)
      BY <2>1, LocksOfOthers, DevicesOfOthers DEF LeavesAlone
    <2>3. QED BY <2>2, LeftAlone
  <1>2. req'[w] = Idle
    BY DEF Finish, Typed, TypeOK
  <1>3. Guarded(w)'
    BY <1>2 DEF Guarded, HoldsRows, CheckHolds, Idle, BookingFirst
  <1>4. QED BY <1>1, <1>3

LEMMA StepGuarded ==
  ASSUME Typed, NEW w \in Workers, Step(w), \A v \in Workers : Guarded(v)
  PROVE  \A v \in Workers : Guarded(v)'
  <1>1. RequestOK(req[w]) /\ Guarded(w)
    BY DEF Typed, RequestsOK
  <1>2. CASE LockCreateDevice(w)
    <2>1. req[w].d \in Rows /\ req[w].op = "create"
      BY <1>1, <1>2 DEF LockCreateDevice, At, RequestOK, Rows
    <2>2. Guarded(w)'
      BY <1>2, <2>1, GotoOwn, TakeOwn DEF LockCreateDevice, Guarded, HoldsRows, CheckHolds, BookingFirst
    <2>3. QED BY <1>2, <2>1, <2>2, GotoOthers DEF LockCreateDevice
  <1>3. CASE CheckCreate(w)
    <2>1. CASE /\ CanBeBooked(req[w].d, req[w].slot)
               /\ Goto(w, "insert") /\ UNCHANGED <<device, lock>>
      <3>1. req[w].op = "create" /\ Owns(w, req[w].d)
        BY <1>1, <1>3 DEF CheckCreate, At, Guarded, HoldsRows
      <3>2. Guarded(w)'
        BY <2>1, <3>1, GotoOwn DEF Guarded, HoldsRows, CheckHolds, BookingFirst, CanBeBooked, Owns
      <3>3. QED BY <2>1, <3>2, GotoOthers
    <2>2. QED BY <1>3, <2>1, RollbackGuarded DEF CheckCreate
  <1>4. CASE InsertBooking(w)
    BY <1>4, RollbackGuarded, CommitGuarded DEF InsertBooking
  <1>5. CASE WriteStatus(w)
    <2>1. CASE Goto(w, "freeDevice") /\ UNCHANGED <<device, lock>>
      <3>1. Guarded(w)'
        BY <1>5, <2>1, GotoOwn DEF WriteStatus, StatusWrites, Guarded, HoldsRows, CheckHolds
      <3>2. QED BY <2>1, <3>1, GotoOthers
    <2>2. QED BY <1>5, <2>1, RollbackGuarded, CommitGuarded DEF WriteStatus
  <1>6. CASE FreeDevice(w)
    <2>1. req[w].d \in Devices
      BY <1>1, <1>6 DEF FreeDevice, At, RequestOK
    <2>2. [device[req[w].d] EXCEPT !.status = "available"] \in DeviceRow
      BY <2>1, DeviceChanged DEF DeviceStatuses
    <2>3. device' = [device EXCEPT ![req[w].d] = [device[req[w].d] EXCEPT !.status = "available"]]
      BY <1>6 DEF FreeDevice
    <2>4. QED BY <1>6, <2>1, <2>2, <2>3, CommitGuarded DEF FreeDevice
  <1>7. CASE LockBooking(w)
    <2>1. req[w].b \in Rows /\ req[w].op \in BookingFirst
      BY <1>1, <1>7 DEF LockBooking, RequestOK, Rows
    <2>2. Guarded(w)'
      BY <1>7, <2>1, GotoOwn, TakeOwn DEF LockBooking, Guarded, HoldsRows, CheckHolds, BookingFirst
    <2>3. QED BY <1>7, <2>1, <2>2, GotoOthers DEF LockBooking
  <1>8. CASE RefuseStart(w) \/ RefuseReturn(w)
    BY <1>8, RollbackGuarded DEF RefuseStart, RefuseReturn
  <1>9. CASE Start(w) \/ ConfirmReturn(w) \/ EndEarly(w) \/ ConfirmLost(w)
    <2>1. req[w].d \in Devices
      BY <1>1, <1>9 DEF Start, ConfirmReturn, EndEarly, ConfirmLost, CommitBookingFirst, At,
                        RequestOK, BookingFirst
    <2>2. \E op, s : \E row \in DeviceRow : CommitBookingFirst(w, op, s, row)
      <3>1. \A s \in {"available", "rented", "maintenance"} :
              [device[req[w].d] EXCEPT !.status = s] \in DeviceRow
        BY <2>1, DeviceChanged DEF DeviceStatuses
      <3>2. [status |-> "lost", isDiscontinued |-> TRUE] \in DeviceRow
        BY DEF DeviceRow, DeviceStatuses
      <3>3. QED BY <1>9, <3>1, <3>2 DEF Start, ConfirmReturn, EndEarly, ConfirmLost
    <2>3. QED BY <2>1, <2>2, CommitGuarded DEF CommitBookingFirst
  <1>10. CASE LockSwapFirst(w)
    <2>1. LockOrder(w)[1] \in Rows /\ req[w].op = "swap"
      BY <1>1, <1>10 DEF LockSwapFirst, At, RequestOK, LockOrder, Rows
    <2>2. LockOrder(w)' = LockOrder(w)
      BY <1>10, GotoOwn DEF LockSwapFirst, LockOrder
    <2>3. Guarded(w)'
      BY <1>10, <2>1, <2>2, GotoOwn, TakeOwn DEF LockSwapFirst, Guarded, HoldsRows, CheckHolds, BookingFirst
    <2>4. QED BY <1>10, <2>1, <2>3, GotoOthers DEF LockSwapFirst
  <1>11. CASE LockSwapSecond(w)
    <2>1. /\ req[w].op = "swap" /\ req[w].d \in Rows /\ req[w].e \in Rows
          /\ LockOrder(w)[2] \in Rows /\ Owns(w, LockOrder(w)[1])
          /\ {req[w].d, req[w].e} = {LockOrder(w)[1], LockOrder(w)[2]}
      BY <1>1, <1>11 DEF LockSwapSecond, At, RequestOK, LockOrder, Rows, Guarded, HoldsRows
    <2>2. Owns(w, req[w].d)' /\ Owns(w, req[w].e)'
      <3>1. \A row \in Rows : Owns(w, row) \/ row = LockOrder(w)[2] => Owns(w, row)'
        BY <1>11, <2>1, TakeOwn DEF LockSwapSecond
      <3>2. req'[w].d = req[w].d /\ req'[w].e = req[w].e /\ LockOrder(w)' = LockOrder(w)
        BY <1>11, GotoOwn DEF LockSwapSecond, LockOrder
      <3>3. QED BY <2>1, <3>1, <3>2 DEF Owns
    <2>3. Guarded(w)'
      BY <1>11, <2>1, <2>2, GotoOwn DEF LockSwapSecond, Guarded, HoldsRows, CheckHolds, BookingFirst, Owns
    <2>4. QED BY <1>11, <2>1, <2>3, GotoOthers DEF LockSwapSecond
  <1>12. CASE CheckSwap(w)
    <2>1. CASE /\ CanReplace(req[w].b, req[w].e)
               /\ req' = [req EXCEPT ![w].pc = "lockBooking", ![w].old = booking[req[w].b].device]
               /\ UNCHANGED <<booking, device, lock>>
      <3>1. /\ req'[w].op = "swap" /\ req'[w].pc = "lockBooking"
            /\ req'[w].d = req[w].d /\ req'[w].e = req[w].e
        BY <1>12, <2>1 DEF CheckSwap, At, Typed, TypeOK, Request
      <3>2. Owns(w, req[w].d) /\ Owns(w, req[w].e)
        BY <1>1, <1>12 DEF CheckSwap, At, Guarded, HoldsRows
      <3>3. Guarded(w)'
        BY <2>1, <3>1, <3>2 DEF Guarded, HoldsRows, CheckHolds, BookingFirst, CanReplace, Owns
      <3>4. ASSUME NEW v \in Workers \ {w} PROVE Guarded(v)'
        <4>1. req'[v] = req[v]
          BY <2>1 DEF Typed, TypeOK
        <4>2. LeavesAlone(v)
          BY <2>1, <4>1, LocksOfOthers DEF LeavesAlone
        <4>3. QED BY <4>2, LeftAlone
      <3>5. QED BY <3>3, <3>4
    <2>2. QED BY <1>12, <2>1, RollbackGuarded DEF CheckSwap
  <1>13. CASE LockSwapBooking(w)
    <2>1. /\ req[w].op = "swap" /\ req[w].b \in Rows /\ req[w].d \in Rows /\ req[w].e \in Rows
          /\ Owns(w, req[w].d) /\ Owns(w, req[w].e) /\ CheckHolds(w)
      BY <1>1, <1>13 DEF LockSwapBooking, At, RequestOK, Rows, Guarded, HoldsRows
    <2>2. /\ Owns(w, req[w].b)' /\ Owns(w, req[w].d)' /\ Owns(w, req[w].e)'
      BY <1>13, <2>1, TakeOwn, GotoOwn DEF LockSwapBooking, Owns
    <2>3. Guarded(w)'
      BY <1>13, <2>1, <2>2, GotoOwn DEF LockSwapBooking, At, Guarded, HoldsRows, CheckHolds, BookingFirst, Owns
    <2>4. QED BY <1>13, <2>1, <2>3, GotoOthers DEF LockSwapBooking
  <1>14. CASE SwapDevice(w)
    <2>1. CASE /\ device' = [device EXCEPT ![req[w].old].status = "maintenance",
                                            ![req[w].e].status = "rented"]
               /\ ReleaseAll(w) /\ Finish(w)
      <3>1. /\ req[w].old \in Devices /\ req[w].e \in Devices
            /\ Free(req[w].old) \/ Owns(w, req[w].old)
            /\ Owns(w, req[w].e)
        BY <1>1, <1>14 DEF SwapDevice, At, RequestOK, Guarded, HoldsRows
      <3>2. ASSUME NEW v \in Workers \ {w} PROVE Guarded(v)'
        <4>1. req'[v] = req[v]
          BY <2>1, RequestsOfOthers DEF Finish
        <4>2. ASSUME NEW x \in Devices, Owns(v, x) PROVE device'[x] = device[x]
          <5>1. x # req[w].old /\ x # req[w].e
            BY <3>1, <3>2, <4>2 DEF Free, Owns
          <5>2. QED BY <2>1, <5>1 DEF Typed, TypeOK
        <4>3. LeavesAlone(v)
          BY <2>1, <4>1, <4>2, LocksOfOthers DEF LeavesAlone
        <4>4. QED BY <4>3, LeftAlone
      <3>3. req'[w] = Idle
        BY <2>1 DEF Finish, Typed, TypeOK
      <3>4. Guarded(w)'
        BY <3>3 DEF Guarded, HoldsRows, CheckHolds, Idle, BookingFirst
      <3>5. QED BY <3>2, <3>4
    <2>2. QED BY <1>14, <2>1, RollbackGuarded DEF SwapDevice
  <1>15. QED
    BY <1>2, <1>3, <1>4, <1>5, <1>6, <1>7, <1>8, <1>9, <1>10, <1>11, <1>12, <1>13, <1>14 DEF Step

LEMMA RecordGuarded ==
  ASSUME Typed,
         \/ \E b \in Bookings : \/ ConfirmAfterPayment(b) \/ CounterSteps(b)
                                \/ Report(b) \/ ChargeCustomerFault(b) \/ FlagSuspectedLost(b)
         \/ \E d \in Devices, s \in FormStatuses : SetDeviceStatus(d, s),
         \A v \in Workers : Guarded(v)
  PROVE  \A v \in Workers : Guarded(v)'
  <1> SUFFICES ASSUME NEW v \in Workers PROVE LeavesAlone(v)
    BY LeftAlone
  <1>1. UNCHANGED <<lock, req>>
    BY DEF ConfirmAfterPayment, CounterSteps, Report, ChargeCustomerFault, FlagSuspectedLost,
           SetDeviceStatus
  <1>2. CASE device' = device
    BY <1>1, <1>2 DEF LeavesAlone, Owns
  <1>3. CASE \E d \in Devices, s \in FormStatuses : SetDeviceStatus(d, s)
    BY <1>1, <1>3 DEF LeavesAlone, SetDeviceStatus, Free, Owns, Typed, TypeOK
  <1>4. QED
    BY <1>2, <1>3 DEF ConfirmAfterPayment, CounterSteps, Report, ChargeCustomerFault,
                      FlagSuspectedLost

LEMMA InitGuarded == Init => \A v \in Workers : Guarded(v)
  BY DEF Init, Guarded, HoldsRows, CheckHolds, Idle, BookingFirst

LEMMA NextGuarded ==
  ASSUME Typed, [Next]_vars, \A v \in Workers : Guarded(v)
  PROVE  \A v \in Workers : Guarded(v)'
  <1>1. CASE UNCHANGED vars
    BY <1>1 DEF vars, Guarded, HoldsRows, CheckHolds, Owns, LockOrder
  <1>2. ASSUME NEW w \in Workers, Arrive(w) \/ Step(w) \/ Fail(w) \/ DeadlockVictim(w)
        PROVE  \A v \in Workers : Guarded(v)'
    BY <1>2, ArriveGuarded, StepGuarded, RollbackGuarded DEF Fail, DeadlockVictim
  <1>3. QED BY <1>1, <1>2, RecordGuarded DEF Next

(* Every transaction holds the row locks its checks rely on, and what it   *)
(* checked of a device stays true until it commits: no other request,      *)
(* ticket or form write gets between the check and the write.              *)
THEOREM LocksProtectChecks == Spec => [](HoldsItsRows /\ ChecksStillHold)
  <1> DEFINE AllGuarded == \A v \in Workers : Guarded(v)
  <1>1. Typed /\ AllGuarded /\ [Next]_vars => AllGuarded'
    BY NextGuarded
  <1>2. Init => AllGuarded
    BY InitGuarded
  <1>3. AllGuarded => HoldsItsRows /\ ChecksStillHold
    BY DEF Guarded, HoldsItsRows, ChecksStillHold
  <1>4. Spec => []Typed
    BY AlwaysTyped DEF Typed
  <1> HIDE DEF AllGuarded
  <1>5. QED BY <1>1, <1>2, <1>3, <1>4, PTL DEF Spec

(* How a row of the bookings table can change. *)
Created(b) ==
  \E w \in Workers : /\ At(w, "create", "insert") /\ req'[w] = Idle
                     /\ booking'[b].device = req[w].d
Swapped(b) ==
  \E w \in Workers : /\ At(w, "swap", "commit") /\ req'[w] = Idle
                     /\ booking'[b].device = req[w].e
Rewritten(b) == booking'[b] \in BookingRow /\ booking'[b].device = booking[b].device

LEMMA RowChanges ==
  ASSUME Typed, Next, NEW b \in Bookings, booking'[b] # booking[b]
  PROVE  \/ booking[b] = Absent /\ Created(b)
         \/ booking[b] \in BookingRow /\ (Swapped(b) \/ Rewritten(b))
  <1> DEFINE Known == \/ booking[b] = Absent /\ Created(b)
                      \/ booking[b] \in BookingRow /\ (Swapped(b) \/ Rewritten(b))
  <1>1. booking \in [Bookings -> BookingRow \union {Absent}]
    BY DEF Typed, TypeOK
  <1>2. ASSUME NEW c \in Bookings, booking[c] \in BookingRow, NEW s \in BookingStatuses,
               booking' = [booking EXCEPT ![c] = [booking[c] EXCEPT !.status = s]]
        PROVE  Known
    BY <1>1, <1>2, StatusChanged DEF Rewritten, BookingRow
  <1>3. ASSUME NEW w \in Workers, Step(w) PROVE Known
    <2>1. RequestOK(req[w])
      BY DEF Typed, RequestsOK
    <2>2. CASE InsertBooking(w)
      <3>1. /\ At(w, "create", "insert") /\ req'[w] = Idle
            /\ \E c \in Bookings : /\ booking[c] = Absent
                                  /\ booking' = [booking EXCEPT ![c] = NewRow(w)]
        BY <2>2 DEF InsertBooking, Rollback, Finish, Typed, TypeOK
      <3>2. QED BY <1>1, <3>1 DEF Created, NewRow
    <2>3. CASE SwapDevice(w)
      <3>1. /\ At(w, "swap", "commit") /\ req'[w] = Idle
            /\ req[w].b \in Bookings /\ booking[req[w].b] \in BookingRow
            /\ booking' = [booking EXCEPT ![req[w].b] =
                                     [booking[req[w].b] EXCEPT !.device = req[w].e]]
        BY <2>1, <2>3 DEF SwapDevice, Rollback, Finish, At, RequestOK, Typed, TypeOK
      <3>2. QED BY <1>1, <3>1 DEF Swapped, BookingRow
    <2>4. CASE WriteStatus(w)
      <3>1. req[w].b \in Bookings /\ booking[req[w].b] \in BookingRow
        BY <2>1, <2>4 DEF WriteStatus, RequestOK
      <3>2. WrittenStatus(req[w].op) \in BookingStatuses
        BY DEF WrittenStatus, BookingStatuses, ActiveStatuses
      <3>3. QED BY <1>2, <2>4, <3>1, <3>2 DEF WriteStatus, Rollback
    <2>5. CASE Start(w) \/ ConfirmReturn(w) \/ EndEarly(w) \/ ConfirmLost(w)
      <3>1. \E s \in BookingStatuses : 
               booking' = [booking EXCEPT ![req[w].b] = [booking[req[w].b] EXCEPT !.status = s]]
        BY <2>5 DEF Start, ConfirmReturn, EndEarly, ConfirmLost, CommitBookingFirst,
                    BookingStatuses, ActiveStatuses
      <3>2. req[w].b \in Bookings /\ booking[req[w].b] \in BookingRow
        BY <2>1, <2>5 DEF Start, ConfirmReturn, EndEarly, ConfirmLost, CommitBookingFirst, At,
                          RequestOK, BookingFirst
      <3>3. QED BY <1>2, <3>1, <3>2
    <2>6. LockCreateDevice(w) \/ CheckCreate(w) \/ FreeDevice(w) \/ LockBooking(w)
          \/ RefuseStart(w) \/ RefuseReturn(w) \/ LockSwapFirst(w) \/ LockSwapSecond(w) \/ CheckSwap(w)
          \/ LockSwapBooking(w) => booking' = booking
      BY DEF LockCreateDevice, CheckCreate, FreeDevice, LockBooking, RefuseStart, RefuseReturn, LockSwapFirst,
             LockSwapSecond, CheckSwap, LockSwapBooking, Rollback
    <2>7. QED BY <1>3, <2>2, <2>3, <2>4, <2>5, <2>6 DEF Step
  <1>4. ASSUME NEW c \in Bookings, ConfirmAfterPayment(c) PROVE Known
    <2>1. booking[c] \in BookingRow /\ "confirmed" \in BookingStatuses
      BY <1>1, <1>4 DEF ConfirmAfterPayment, Absent, BookingStatuses, ActiveStatuses
    <2>2. QED BY <1>2, <1>4, <2>1 DEF ConfirmAfterPayment
  <1>5. ASSUME NEW w \in Workers, Arrive(w) \/ Fail(w) \/ DeadlockVictim(w)
        PROVE  booking' = booking
    BY <1>5 DEF Arrive, BeginCreate, BeginConfirm, BeginExpire, BeginCancel, BeginStatusWrite,
                BeginStart, BeginConfirmReturn, BeginEndEarly, BeginConfirmLost, Begin,
                BeginSwap, Fail, DeadlockVictim, Rollback
  <1>6. ASSUME NEW c \in Bookings,
               \/ CounterSteps(c) \/ Report(c) \/ ChargeCustomerFault(c) \/ FlagSuspectedLost(c)
        PROVE  booking' = booking
    BY <1>6 DEF CounterSteps, Report, ChargeCustomerFault, FlagSuspectedLost
  <1>7. (\E d \in Devices, s \in FormStatuses : SetDeviceStatus(d, s)) => booking' = booking
    BY DEF SetDeviceStatus
  <1> HIDE DEF Known
  <1>8. Known
    BY <1>3, <1>4, <1>5, <1>6, <1>7 DEF Next
  <1>9. QED BY <1>8 DEF Known

(* A booking is created on a device that is in service at that moment, and *)
(* a swap hands over a device that is free at that moment.                 *)
THEOREM CreationsAreChecked == Spec => CreatesOnLiveDevice
  <1> DEFINE Live == \A b \in Bookings :
               booking[b] = Absent /\ booking'[b] # Absent =>
                 LET d == booking'[b].device IN
                 ~device[d].isDiscontinued /\ device[d].status \notin {"broken", "maintenance"}
  <1>1. Typed /\ ChecksStillHold /\ [Next]_vars => [Live]_vars
    <2> SUFFICES ASSUME Typed, ChecksStillHold, Next, NEW b \in Bookings,
                        booking[b] = Absent, booking'[b] # Absent
                 PROVE  /\ ~device[booking'[b].device].isDiscontinued
                        /\ device[booking'[b].device].status \notin {"broken", "maintenance"}
      OBVIOUS
    <2>1. Created(b)
      BY RowChanges DEF Absent, BookingRow
    <2>2. QED BY <2>1 DEF Created, At, ChecksStillHold, CheckHolds
  <1>2. Spec => []Typed /\ []ChecksStillHold
    BY AlwaysTyped, LocksProtectChecks, PTL DEF Typed
  <1> HIDE DEF Live
  <1>3. Spec => [][Live]_vars
    BY <1>1, <1>2, PTL DEF Spec
  <1>4. QED BY <1>3 DEF CreatesOnLiveDevice, Live

(* The same for the replacement device of a swap. *)
THEOREM SwapsAreChecked == Spec => SwapsToFreeDevice
  <1> DEFINE FreeToRent == \A b \in Bookings :
               booking[b] # Absent /\ booking'[b].device # booking[b].device =>
                 LET d == booking'[b].device IN
                 ~device[d].isDiscontinued /\ device[d].status = "available"
  <1>1. Typed /\ ChecksStillHold /\ [Next]_vars => [FreeToRent]_vars
    <2> SUFFICES ASSUME Typed, ChecksStillHold, Next, NEW b \in Bookings,
                        booking[b] # Absent, booking'[b].device # booking[b].device
                 PROVE  /\ ~device[booking'[b].device].isDiscontinued
                        /\ device[booking'[b].device].status = "available"
      OBVIOUS
    <2>1. Swapped(b)
      BY RowChanges DEF Rewritten
    <2>2. QED BY <2>1 DEF Swapped, At, ChecksStillHold, CheckHolds
  <1>2. Spec => []Typed /\ []ChecksStillHold
    BY AlwaysTyped, LocksProtectChecks, PTL DEF Typed
  <1> HIDE DEF FreeToRent
  <1>3. Spec => [][FreeToRent]_vars
    BY <1>1, <1>2, PTL DEF Spec
  <1>4. QED BY <1>3 DEF SwapsToFreeDevice, FreeToRent


(* A transaction holds every row it relies on.                             *)
THEOREM TransactionsHoldTheirRows == Spec => []HoldsItsRows
  BY LocksProtectChecks, PTL

(* The period of a booking that exists never changes. *)
LEMMA PeriodIsKept ==
  ASSUME Typed, NoOverlap, [Next]_vars, NEW b \in Bookings, booking[b] \in BookingRow
  PROVE  booking'[b].slot = booking[b].slot
  <1>1. CASE booking' = booking
    BY <1>1
  <1>2. CASE CalendarStep
    <2>1. PICK c \in Bookings, row \in BookingRow : AcceptedChange(c, row)
      BY <1>2 DEF CalendarStep
    <2>2. booking[b] # Absent
      BY DEF BookingRow, Absent, BookingStatuses, ActiveStatuses
    <2>3. QED BY <2>1, <2>2 DEF AcceptedChange, Typed, TypeOK
  <1>3. QED BY <1>1, <1>2, NextIsAccepted

(* A new entry of a device's calendar is the work of the transaction that  *)
(* holds the device's row lock: an insert holds the row it locked for the  *)
(* check, a swap both rows.  A write of the status alone changes neither   *)
(* the device nor the period, so it adds an entry only by reviving a       *)
(* booking that had ended.                                                 *)
THEOREM CalendarsGrowLocked == Spec => CalendarGrowsUnderLock
  <1> DEFINE Locked == \A d \in Devices :
               \A h \in Calendar(d)' \ Calendar(d) :
                 \/ \E w \in Workers : Owns(w, d) /\ req'[w] # req[w]
                 \/ Revived(h[1])
  <1>1. Typed /\ NoOverlap /\ HoldsItsRows /\ [Next]_vars => [Locked]_vars
    <2> SUFFICES ASSUME Typed, NoOverlap, HoldsItsRows, Next, NEW d \in Devices,
                        NEW h \in Calendar(d)', h \notin Calendar(d)
                 PROVE  \/ \E w \in Workers : Owns(w, d) /\ req'[w] # req[w]
                        \/ Revived(h[1])
      OBVIOUS
    <2>1. PICK b \in Bookings : /\ h = <<b, booking'[b].slot>>
                                /\ Active(b)' /\ booking'[b].device = d
      BY DEF Calendar
    <2>2. ~(Active(b) /\ booking[b].device = d /\ booking[b].slot = booking'[b].slot)
      BY <2>1 DEF Calendar
    <2>3. booking'[b] # booking[b]
      BY <2>1, <2>2 DEF Active
    <2>4. CASE Created(b)
      <3>1. PICK w \in Workers : /\ At(w, "create", "insert") /\ req'[w] = Idle
                                 /\ booking'[b].device = req[w].d
        BY <2>4 DEF Created
      <3>2. Owns(w, d) /\ req'[w] # req[w]
        BY <2>1, <3>1 DEF At, Idle, HoldsItsRows, HoldsRows
      <3>3. QED BY <3>2
    <2>5. CASE Swapped(b)
      <3>1. PICK w \in Workers : /\ At(w, "swap", "commit") /\ req'[w] = Idle
                                 /\ booking'[b].device = req[w].e
        BY <2>5 DEF Swapped
      <3>2. Owns(w, d) /\ req'[w] # req[w]
        BY <2>1, <3>1 DEF At, Idle, HoldsItsRows, HoldsRows
      <3>3. QED BY <3>2
    <2>6. CASE booking[b] \in BookingRow /\ Rewritten(b)
      <3>1. booking'[b].slot = booking[b].slot
        BY <2>6, PeriodIsKept
      <3>2. ~Active(b) /\ booking[b].status \in BookingStatuses
        BY <2>1, <2>2, <2>6, <3>1 DEF Rewritten, BookingRow
      <3>3. QED BY <2>1, <3>2 DEF Revived, Active
    <2>7. QED BY <2>3, <2>4, <2>5, <2>6, RowChanges
  <1>2. Spec => []Typed /\ []NoOverlap /\ []HoldsItsRows
    BY AlwaysTyped, NeverOverlaps, TransactionsHoldTheirRows, PTL DEF Typed
  <1> HIDE DEF Locked
  <1>3. Spec => [][Locked]_vars
    BY <1>1, <1>2, PTL DEF Spec
  <1>4. QED BY <1>3 DEF CalendarGrowsUnderLock, Locked


-----------------------------------------------------------------------------
(* Who waits for whom *)

(* Where a creation and a swap can be; a swap's two devices differ. *)
Placed(r) ==
  /\ r.op = "create" => r.pc \in {"lockDevice", "check", "insert"}
  /\ r.op = "swap" => /\ r.pc \in {"lockFirst", "lockSecond", "check", "lockBooking", "commit"}
                      /\ r.d # r.e

(* The converse of HoldsRows: the only rows a request can have locked. *)
MayHold(w, row) ==
  LET r == req[w] IN
  \/ r.op = "create" /\ r.pc \in {"check", "insert"} /\ row = r.d
  \/ r.op \in BookingFirst /\ r.pc = "commit" /\ row = r.b
  \/ r.op = "swap" /\ r.pc = "lockSecond" /\ row = LockOrder(w)[1]
  \/ r.op = "swap" /\ r.pc \in {"check", "lockBooking", "commit"} /\ row \in {r.d, r.e}
  \/ r.op = "swap" /\ r.pc = "commit" /\ row = r.b

HoldsOnly(w) == \A row \in Rows : Owns(w, row) => MayHold(w, row)

Known(w) == Placed(req[w]) /\ HoldsOnly(w)

(* What the other workers do to one worker's locks: nothing. *)
LEMMA OthersStayKnown ==
  ASSUME Typed, NEW w \in Workers, NEW v \in Workers \ {w}, Known(v), req'[v] = req[v],
         \/ lock' = lock
         \/ ReleaseAll(w)
         \/ \E row \in Rows : Take(w, row)
  PROVE  Known(v)'
  <1>1. \A row \in Rows : Owns(v, row)' => Owns(v, row)
    BY DEF Typed, TypeOK, ReleaseAll, Take, Owns
  <1>2. LockOrder(v)' = LockOrder(v)
    BY DEF LockOrder
  <1>3. QED BY <1>1, <1>2 DEF Known, HoldsOnly, MayHold

(* A request that ends owns nothing: its transaction is closed, or it      *)
(* never opened one.                                                       *)
LEMMA FinishedKnown ==
  ASSUME Typed, NEW w \in Workers, Finish(w), \A v \in Workers : Known(v),
         ReleaseAll(w) \/ (lock' = lock /\ req[w].op \in StatusWrites)
  PROVE  \A v \in Workers : Known(v)'
  <1>1. ASSUME NEW v \in Workers \ {w} PROVE Known(v)'
    BY <1>1, RequestsOfOthers, OthersStayKnown DEF Finish
  <1>2. req'[w] = Idle
    BY DEF Finish, Typed, TypeOK
  <1>3. ASSUME NEW row \in Rows, Owns(w, row)' PROVE FALSE
    <2>1. CASE ReleaseAll(w)
      BY <1>3, <2>1 DEF ReleaseAll, Owns
    <2>2. CASE lock' = lock /\ req[w].op \in StatusWrites
      <3>1. MayHold(w, row)
        BY <1>3, <2>2 DEF Known, HoldsOnly, Owns
      <3>2. QED BY <2>2, <3>1 DEF MayHold, StatusWrites, BookingFirst
    <2>3. QED BY <2>1, <2>2
  <1>4. Known(w)'
    BY <1>2, <1>3 DEF Known, Placed, HoldsOnly, Idle
  <1>5. QED BY <1>1, <1>4

(* A request that goes on, perhaps with one more row, may hold that row    *)
(* and those it held.                                                      *)
LEMMA TakingKnown ==
  ASSUME Typed, NEW w \in Workers, NEW pc, Goto(w, pc), \A v \in Workers : Known(v),
         \/ lock' = lock
         \/ \E row \in Rows : Take(w, row) /\ MayHold(w, row)',
         Placed(req[w])',
         \A row \in Rows : Owns(w, row) => MayHold(w, row)'
  PROVE  \A v \in Workers : Known(v)'
  <1>1. ASSUME NEW v \in Workers \ {w} PROVE Known(v)'
    BY <1>1, RequestsOfOthers, OthersStayKnown DEF Goto, Typed, TypeOK
  <1>2. ASSUME NEW row \in Rows, Owns(w, row)' PROVE MayHold(w, row)'
    BY <1>2 DEF Typed, TypeOK, Take, Owns
  <1>3. Known(w)'
    BY <1>2 DEF Known, HoldsOnly
  <1>4. QED BY <1>1, <1>3

LEMMA ArriveKnown ==
  ASSUME Typed, NEW w \in Workers, Arrive(w), \A v \in Workers : Known(v)
  PROVE  \A v \in Workers : Known(v)'
  <1> DEFINE New(r) == req' = [req EXCEPT ![w] = r] /\ Placed(r)
  <1>1. BeginCreate(w) => \E r : New(r)
    <2> SUFFICES ASSUME BeginCreate(w) PROVE \E r : New(r)
      OBVIOUS
    <2>1. PICK d \in Devices, s \in Slots :
            req' = [req EXCEPT ![w] = [Idle EXCEPT !.op = "create", !.pc = "lockDevice",
                                                   !.d = d, !.slot = s]]
      BY DEF BeginCreate
    <2>2. New([Idle EXCEPT !.op = "create", !.pc = "lockDevice", !.d = d, !.slot = s])
      BY <2>1 DEF Idle, Placed
    <2>3. QED BY <2>2
  <1>2. ASSUME NEW b \in Bookings, NEW op \in StatusWrites, NEW d, BeginStatusWrite(w, op, b, d)
        PROVE  \E r : New(r)
    <2>1. New([Idle EXCEPT !.op = op, !.pc = "write", !.b = b, !.d = d])
      BY <1>2 DEF BeginStatusWrite, Idle, Placed, StatusWrites
    <2>2. QED BY <2>1
  <1>3. ASSUME NEW b \in Bookings, NEW op \in BookingFirst, Begin(w, op, b)
        PROVE  \E r : New(r)
    <2>1. New([Idle EXCEPT !.op = op, !.pc = "lockBooking", !.b = b, !.d = booking[b].device])
      BY <1>3 DEF Begin, Idle, Placed, BookingFirst
    <2>2. QED BY <2>1
  <1>4. ASSUME NEW b \in Bookings, NEW e \in Devices, BeginSwap(w, b, e)
        PROVE  \E r : New(r)
    <2>1. New([Idle EXCEPT !.op = "swap", !.pc = "lockFirst", !.b = b,
                           !.d = booking[b].device, !.e = e])
      BY <1>4 DEF BeginSwap, Idle, Placed
    <2>2. QED BY <2>1
  <1> HIDE DEF New
  <1>5. ASSUME NEW b \in Bookings, BeginConfirm(w, b) \/ BeginExpire(w, b) \/ BeginCancel(w, b)
        PROVE  \E r : New(r)
    BY <1>2, <1>5 DEF BeginConfirm, BeginExpire, BeginCancel, StatusWrites
  <1>6. ASSUME NEW b \in Bookings, \/ BeginStart(w, b) \/ BeginConfirmReturn(w, b)
                                   \/ BeginEndEarly(w, b) \/ BeginConfirmLost(w, b)
        PROVE  \E r : New(r)
    BY <1>3, <1>6 DEF BeginStart, BeginConfirmReturn, BeginEndEarly, BeginConfirmLost, BookingFirst
  <1>7. \E r : New(r)
    BY <1>1, <1>4, <1>5, <1>6 DEF Arrive
  <1>8. req[w] = Idle /\ lock' = lock
    BY DEF Arrive, BeginCreate, BeginConfirm, BeginExpire, BeginCancel, BeginStatusWrite,
           BeginStart, BeginConfirmReturn, BeginEndEarly, BeginConfirmLost, Begin, BeginSwap
  <1>9. PICK r : New(r)
    BY <1>7
  <1>10. ASSUME NEW v \in Workers \ {w} PROVE Known(v)'
    BY <1>8, <1>9, <1>10, RequestsOfOthers, OthersStayKnown DEF New
  <1>11. Placed(req[w])'
    BY <1>9 DEF New, Placed, Typed, TypeOK
  <1>12. ASSUME NEW row \in Rows, Owns(w, row)' PROVE FALSE
    <2>1. MayHold(w, row)
      BY <1>8, <1>12 DEF Known, HoldsOnly, Owns
    <2>2. QED BY <1>8, <2>1 DEF MayHold, Idle, BookingFirst
  <1>13. Known(w)'
    BY <1>11, <1>12 DEF Known, HoldsOnly
  <1>14. QED BY <1>10, <1>13

LEMMA StepKnown ==
  ASSUME Typed, NEW w \in Workers, Step(w), \A v \in Workers : Known(v)
  PROVE  \A v \in Workers : Known(v)'
  <1>1. RequestOK(req[w]) /\ Known(w)
    BY DEF Typed, RequestsOK
  <1>2. LockOrder(w)' = LockOrder(w) \/ ~ \E pc : Goto(w, pc)
    BY GotoOwn DEF LockOrder
  <1>3. ASSUME Rollback(w) PROVE \A v \in Workers : Known(v)'
    BY <1>3, FinishedKnown DEF Rollback
  <1>4. CASE LockCreateDevice(w)
    <2>1. PICK row \in Rows : row = req[w].d
      BY <1>1, <1>4 DEF LockCreateDevice, At, RequestOK, Rows
    <2>2. Goto(w, "check") /\ Take(w, row) /\ req[w].op = "create" /\ req[w].pc = "lockDevice"
      BY <1>4, <2>1 DEF LockCreateDevice, At
    <2>3. \A r \in Rows : ~Owns(w, r)
      BY <1>1, <2>2 DEF Known, HoldsOnly, MayHold, BookingFirst
    <2>4. Placed(req[w])' /\ MayHold(w, row)'
      BY <2>1, <2>2, GotoOwn DEF Placed, MayHold
    <2>5. QED BY <2>2, <2>3, <2>4, TakingKnown
  <1>5. CASE CheckCreate(w)
    <2>1. CASE Goto(w, "insert") /\ lock' = lock
      <3>1. Placed(req[w])' /\ \A row \in Rows : MayHold(w, row) => MayHold(w, row)'
        BY <1>5, <2>1, GotoOwn DEF CheckCreate, At, Placed, MayHold, BookingFirst
      <3>2. \A row \in Rows : Owns(w, row) => MayHold(w, row)'
        BY <1>1, <3>1 DEF Known, HoldsOnly
      <3>3. QED BY <2>1, <3>1, <3>2, TakingKnown
    <2>2. QED BY <1>3, <1>5, <2>1 DEF CheckCreate
  <1>6. CASE InsertBooking(w)
    BY <1>3, <1>6, FinishedKnown DEF InsertBooking
  <1>7. CASE WriteStatus(w)
    <2>1. CASE Goto(w, "freeDevice") /\ lock' = lock
      <3>1. Placed(req[w])' /\ \A row \in Rows : ~MayHold(w, row)
        BY <1>7, <2>1, GotoOwn DEF WriteStatus, Placed, MayHold, BookingFirst, StatusWrites
      <3>2. \A row \in Rows : Owns(w, row) => MayHold(w, row)'
        BY <1>1, <3>1 DEF Known, HoldsOnly
      <3>3. QED BY <2>1, <3>1, <3>2, TakingKnown
    <2>2. CASE Finish(w) /\ lock' = lock
      BY <1>7, <2>2, FinishedKnown DEF WriteStatus
    <2>3. QED BY <1>3, <1>7, <2>1, <2>2 DEF WriteStatus
  <1>8. CASE FreeDevice(w)
    BY <1>8, FinishedKnown DEF FreeDevice, At, StatusWrites
  <1>9. CASE LockBooking(w)
    <2>1. PICK row \in Rows : row = req[w].b
      BY <1>1, <1>9 DEF LockBooking, RequestOK, Rows
    <2>2. /\ Goto(w, "commit") /\ Take(w, row)
          /\ req[w].op \in BookingFirst /\ req[w].pc = "lockBooking"
      BY <1>9, <2>1 DEF LockBooking
    <2>3. \A r \in Rows : ~Owns(w, r)
      BY <1>1, <2>2 DEF Known, HoldsOnly, MayHold, BookingFirst
    <2>4. Placed(req[w])' /\ MayHold(w, row)'
      BY <2>1, <2>2, GotoOwn DEF Placed, MayHold, BookingFirst
    <2>5. QED BY <2>2, <2>3, <2>4, TakingKnown
  <1>10. CASE RefuseStart(w) \/ RefuseReturn(w)
    BY <1>3, <1>10 DEF RefuseStart, RefuseReturn
  <1>11. CASE Start(w) \/ ConfirmReturn(w) \/ EndEarly(w) \/ ConfirmLost(w)
    BY <1>11, FinishedKnown DEF Start, ConfirmReturn, EndEarly, ConfirmLost, CommitBookingFirst
  <1>12. CASE LockSwapFirst(w)
    <2>1. PICK row \in Rows : row = LockOrder(w)[1]
      BY <1>1, <1>12 DEF LockSwapFirst, At, RequestOK, LockOrder, Rows
    <2>2. /\ Goto(w, "lockSecond") /\ Take(w, row)
          /\ req[w].op = "swap" /\ req[w].pc = "lockFirst" /\ req[w].d # req[w].e
      BY <1>1, <1>12, <2>1 DEF LockSwapFirst, At, Known, Placed
    <2>3. \A r \in Rows : ~Owns(w, r)
      BY <1>1, <2>2 DEF Known, HoldsOnly, MayHold, BookingFirst
    <2>4. Placed(req[w])' /\ MayHold(w, row)'
      BY <1>2, <2>1, <2>2, GotoOwn DEF Placed, MayHold
    <2>5. QED BY <2>2, <2>3, <2>4, TakingKnown
  <1>13. CASE LockSwapSecond(w)
    <2>1. PICK row \in Rows : row = LockOrder(w)[2]
      BY <1>1, <1>13 DEF LockSwapSecond, At, RequestOK, LockOrder, Rows
    <2>2. /\ Goto(w, "check") /\ Take(w, row)
          /\ req[w].op = "swap" /\ req[w].pc = "lockSecond" /\ req[w].d # req[w].e
          /\ {LockOrder(w)[1], row} \subseteq {req[w].d, req[w].e}
      BY <1>1, <1>13, <2>1 DEF LockSwapSecond, At, LockOrder, Known, Placed
    <2>3. \A r \in Rows : Owns(w, r) => r \in {req[w].d, req[w].e}
      BY <1>1, <2>2 DEF Known, HoldsOnly, MayHold, BookingFirst
    <2>4. Placed(req[w])' /\ \A r \in {req[w].d, req[w].e} : MayHold(w, r)'
      BY <2>2, GotoOwn DEF Placed, MayHold
    <2>5. QED BY <2>2, <2>3, <2>4, TakingKnown
  <1>14. CASE CheckSwap(w)
    <2>1. CASE /\ req' = [req EXCEPT ![w].pc = "lockBooking", ![w].old = booking[req[w].b].device]
               /\ lock' = lock
      <3>1. /\ req[w].op = "swap" /\ req[w].pc = "check"
            /\ req'[w].op = req[w].op /\ req'[w].pc = "lockBooking"
            /\ req'[w].d = req[w].d /\ req'[w].e = req[w].e /\ req'[w].b = req[w].b
            /\ \A v \in Workers \ {w} : req'[v] = req[v]
        BY <1>14, <2>1 DEF CheckSwap, At, Typed, TypeOK, Request
      <3>2. ASSUME NEW v \in Workers \ {w} PROVE Known(v)'
        BY <2>1, <3>1, OthersStayKnown
      <3>3. Placed(req[w])' /\ \A row \in Rows : MayHold(w, row) => MayHold(w, row)'
        BY <1>1, <3>1 DEF Known, Placed, MayHold, BookingFirst
      <3>4. Known(w)'
        BY <1>1, <2>1, <3>3 DEF Known, HoldsOnly, Owns
      <3>5. QED BY <3>2, <3>4
    <2>2. QED BY <1>3, <1>14, <2>1 DEF CheckSwap
  <1>15. CASE LockSwapBooking(w)
    <2>1. PICK row \in Rows : row = req[w].b
      BY <1>1, <1>15 DEF LockSwapBooking, At, RequestOK, Rows
    <2>2. /\ Goto(w, "commit") /\ Take(w, row)
          /\ req[w].op = "swap" /\ req[w].pc = "lockBooking" /\ req[w].d # req[w].e
      BY <1>1, <1>15, <2>1 DEF LockSwapBooking, At, Known, Placed
    <2>3. \A r \in Rows : Owns(w, r) => r \in {req[w].d, req[w].e}
      BY <1>1, <2>2 DEF Known, HoldsOnly, MayHold, BookingFirst
    <2>4. Placed(req[w])' /\ \A r \in {req[w].d, req[w].e, row} : MayHold(w, r)'
      BY <2>1, <2>2, GotoOwn DEF Placed, MayHold
    <2>5. QED BY <2>2, <2>3, <2>4, TakingKnown
  <1>16. CASE SwapDevice(w)
    BY <1>3, <1>16, FinishedKnown DEF SwapDevice
  <1>17. QED
    BY <1>4, <1>5, <1>6, <1>7, <1>8, <1>9, <1>10, <1>11, <1>12, <1>13, <1>14, <1>15, <1>16 DEF Step

LEMMA NextKnown ==
  ASSUME Typed, [Next]_vars, \A v \in Workers : Known(v)
  PROVE  \A v \in Workers : Known(v)'
  <1>1. CASE UNCHANGED <<lock, req>>
    BY <1>1 DEF Known, Placed, HoldsOnly, MayHold, Owns, LockOrder
  <1>2. ASSUME NEW w \in Workers, Arrive(w) \/ Step(w) \/ Fail(w) \/ DeadlockVictim(w)
        PROVE  \A v \in Workers : Known(v)'
    BY <1>2, ArriveKnown, StepKnown, FinishedKnown DEF Fail, DeadlockVictim, Rollback
  <1>3. ASSUME NEW b \in Bookings, \/ ConfirmAfterPayment(b) \/ CounterSteps(b) \/ Report(b)
                                   \/ ChargeCustomerFault(b) \/ FlagSuspectedLost(b)
        PROVE  UNCHANGED <<lock, req>>
    BY <1>3 DEF ConfirmAfterPayment, CounterSteps, Report, ChargeCustomerFault, FlagSuspectedLost
  <1>4. (\E d \in Devices, s \in FormStatuses : SetDeviceStatus(d, s)) => UNCHANGED <<lock, req>>
    BY DEF SetDeviceStatus
  <1>5. QED BY <1>1, <1>2, <1>3, <1>4 DEF Next, vars

(* What a request waits for and what it holds, if it is a creation or a    *)
(* swap that commits on the device it sorted by: a creation waits holding  *)
(* nothing; a swap that waits for its second device holds the smaller one; *)
(* a swap that waits for its booking row holds no booking.                 *)
LEMMA SwapsWaitUpwards ==
  ASSUME Typed, \A v \in Workers : Known(v), HoldsItsRows,
         NEW W \in SUBSET Workers, Cycle(W),
         \A w \in W : /\ req[w].op \in DeviceFirst
                      /\ At(w, "swap", "commit") => req[w].old \in {req[w].d, req[w].e}
  PROVE  \A w \in W : /\ At(w, "swap", "lockSecond")
                      /\ \E u \in W : /\ At(u, "swap", "lockSecond")
                                      /\ LockOrder(w)[1] = LockOrder(u)[2]
  <1>1. ASSUME NEW w \in W
        PROVE  /\ \E row \in Rows : Owns(w, row)
               /\ Wanted(w) # None /\ \E v \in W \ {w} : Owns(v, Wanted(w))
    <2>1. PICK u \in W : WaitsFor(u, w)
      BY <1>1 DEF Cycle
    <2>2. Wanted(u) \in Rows
      <3>1. RequestOK(req[u]) /\ req[u].op \in DeviceFirst /\ Placed(req[u])
        BY DEF Typed, RequestsOK, Known
      <3>2. QED
        BY <2>1, <3>1 DEF WaitsFor, Wanted, RequestOK, Placed, DeviceFirst, StatusWrites,
                          BookingFirst, LockOrder, Rows
    <2>3. QED BY <2>1, <2>2, <1>1 DEF Cycle, WaitsFor
  <1>2. ASSUME NEW w \in W PROVE At(w, "swap", "lockSecond") \/ At(w, "swap", "lockBooking")
    <2>1. /\ req[w].op \in {"create", "swap"} /\ Known(w) /\ HoldsRows(w)
          /\ At(w, "swap", "commit") => req[w].old \in {req[w].d, req[w].e}
      BY DEF DeviceFirst, HoldsItsRows
    <2>2. ~ (req[w].op = "create" /\ req[w].pc = "lockDevice") /\ ~At(w, "swap", "lockFirst")
      BY <1>1, <2>1 DEF Known, HoldsOnly, MayHold, At, BookingFirst
    <2>3. /\ ~ (req[w].op = "create" /\ req[w].pc \in {"check", "insert"})
          /\ ~At(w, "swap", "check")
      BY <1>1 DEF Wanted, At, StatusWrites, BookingFirst
    <2>4. ~At(w, "swap", "commit")
      <3>1. At(w, "swap", "commit") => Wanted(w) = req[w].old /\ Owns(w, req[w].old)
        BY <2>1 DEF Wanted, At, StatusWrites, BookingFirst, HoldsRows
      <3>2. QED BY <1>1, <3>1 DEF Owns
    <2>5. QED BY <2>1, <2>2, <2>3, <2>4 DEF Known, Placed, At
  <1>3. ASSUME NEW w \in W, NEW row \in Rows, Owns(w, row) PROVE row \in Devices
    <2>1. MayHold(w, row) /\ RequestOK(req[w])
      BY <1>3 DEF Known, HoldsOnly, Typed, RequestsOK
    <2>2. QED BY <1>2, <2>1 DEF MayHold, At, RequestOK, BookingFirst, LockOrder
  <1>4. ASSUME NEW w \in W PROVE At(w, "swap", "lockSecond")
    <2>1. ASSUME At(w, "swap", "lockBooking") PROVE FALSE
      <3>1. Wanted(w) = req[w].b /\ req[w].b \in Bookings
        BY <2>1 DEF Wanted, At, StatusWrites, BookingFirst, Typed, RequestsOK, RequestOK
      <3>2. PICK v \in W : Owns(v, req[w].b)
        BY <1>1, <3>1
      <3>3. req[w].b \in Devices
        BY <1>3, <3>1, <3>2 DEF Rows
      <3>4. QED BY <3>1, <3>3
    <2>2. QED BY <1>2, <2>1
  <1>5. ASSUME NEW w \in W
        PROVE  \E u \in W : At(u, "swap", "lockSecond") /\ LockOrder(w)[1] = LockOrder(u)[2]
    <2>1. PICK u \in W : WaitsFor(u, w)
      BY <1>5 DEF Cycle
    <2>2. At(u, "swap", "lockSecond") /\ At(w, "swap", "lockSecond") /\ RequestOK(req[u])
      BY <1>4, <1>5 DEF Typed, RequestsOK
    <2>3. Wanted(u) = LockOrder(u)[2]
      BY <2>2 DEF Wanted, At, StatusWrites, BookingFirst
    <2>4. LockOrder(u)[2] \in Rows
      BY <2>2 DEF At, RequestOK, LockOrder, Rows
    <2>5. MayHold(w, LockOrder(u)[2])
      BY <2>1, <2>3, <2>4 DEF WaitsFor, Known, HoldsOnly
    <2>6. QED BY <2>2, <2>5 DEF MayHold, At, BookingFirst
  <1>6. QED BY <1>4, <1>5

(* Sorting the device ids is enough for creations and swaps of a booking   *)
(* that still has the device they sorted by.  In a circle of such requests *)
(* everyone would wait for its second device, and someone would wait with  *)
(* a smaller first device than each of them: no least one is left.         *)
THEOREM SortingSuffices == Spec => []SortedOrderSuffices
  <1> DEFINE AllKnown == \A v \in Workers : Known(v)
  <1>1. Typed /\ AllKnown /\ [Next]_vars => AllKnown'
    BY NextKnown
  <1>2. Init => AllKnown
    BY DEF Init, Known, Placed, HoldsOnly, Idle, Owns, Rows
  <1>3. Typed /\ AllKnown /\ HoldsItsRows => SortedOrderSuffices
    <2> SUFFICES ASSUME Typed, AllKnown, HoldsItsRows, NEW W \in SUBSET Workers, Cycle(W),
                        \A w \in W : /\ req[w].op \in DeviceFirst
                                     /\ At(w, "swap", "commit") =>
                                          req[w].old \in {req[w].d, req[w].e}
                 PROVE  FALSE
      BY DEF SortedOrderSuffices
    <2>1. \A w \in W : /\ At(w, "swap", "lockSecond")
                       /\ \E u \in W : LockOrder(w)[1] = LockOrder(u)[2]
      BY SwapsWaitUpwards
    <2>2. ASSUME NEW w \in W
          PROVE  /\ LockOrder(w)[1] \in Nat /\ LockOrder(w)[2] \in Nat
                 /\ LockOrder(w)[1] < LockOrder(w)[2]
      <3>1. RequestOK(req[w]) /\ Placed(req[w]) /\ req[w].op = "swap"
        BY <2>1 DEF Typed, RequestsOK, Known, At
      <3>2. req[w].d \in Nat /\ req[w].e \in Nat /\ req[w].d # req[w].e
        BY <3>1 DEF RequestOK, Placed
      <3>3. QED BY <3>2 DEF LockOrder
    <2> DEFINE Firsts == {LockOrder(w)[1] : w \in W}
    <2>3. Firsts \in SUBSET Nat /\ Firsts # {}
      <3>1. PICK w \in W : TRUE
        BY DEF Cycle
      <3>2. LockOrder(w)[1] \in Firsts
        OBVIOUS
      <3>3. ASSUME NEW n \in Firsts PROVE n \in Nat
        BY <2>2, <3>3
      <3>4. QED BY <3>2, <3>3
    <2>4. PICK m \in Firsts : \A n \in Firsts : m <= n
      BY <2>3, LeastNumber
    <2>5. PICK w \in W : m = LockOrder(w)[1]
      BY <2>4
    <2>6. PICK u \in W : LockOrder(w)[1] = LockOrder(u)[2]
      BY <2>1
    <2>7. LockOrder(u)[1] \in Firsts /\ LockOrder(u)[1] < m /\ m \in Nat
      BY <2>2, <2>5, <2>6
    <2>8. LockOrder(u)[1] \in Nat /\ m <= LockOrder(u)[1]
      BY <2>2, <2>4, <2>7
    <2> HIDE DEF Firsts
    <2>9. QED BY <2>7, <2>8
  <1>4. Spec => []Typed /\ []HoldsItsRows
    BY AlwaysTyped, TransactionsHoldTheirRows, PTL DEF Typed
  <1> HIDE DEF AllKnown
  <1>5. QED BY <1>1, <1>2, <1>3, <1>4, PTL DEF Spec
=============================================================================
