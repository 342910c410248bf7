--------------------------- MODULE DepositPayment ---------------------------
(***************************************************************************)
(* The deposit of one booking, from the reservation to the hand-over or    *)
(* the cancellation: the VNPay payments opened for it and their webhook    *)
(* (payments.service.ts), the BullMQ job that cancels it when it is not    *)
(* paid in time (bookings.processor.ts), and the staff's and customer's    *)
(* confirm, cancel and refund (bookings.service.ts).                       *)
(*                                                                         *)
(* The three meet in two stores, Postgres and Redis, with no transaction   *)
(* around them: each handler reads the booking, removes the job, and then  *)
(* writes.  Every await is a place where the others run, or where the      *)
(* request fails.                                                          *)
(***************************************************************************)
EXTENDS Naturals

CONSTANTS
  Requests,    \* requests that can be in progress at the same time
  Payments,    \* payment rows the run may open for the booking
  MaxFailures, \* how many requests may fail half way
  None         \* no payment

ASSUME FailuresAreCounted == MaxFailures \in Nat
ASSUME NoneIsNoPayment == None \notin Payments

VARIABLES
  status,    \* booking.status
  refund,    \* booking.depositRefundStatus
  payment,   \* payment.status of each row
  txn,       \* VNPay's side of each payment: what the customer did
  acked,     \* payments whose webhook VNPay has had an answer for
  job,       \* the TTL job in Redis, and how far its processor is
  req,       \* what each request is doing
  collected, \* history: the booking was confirmed once, its deposit is in
  notices,   \* history: "your payment has arrived" notifications sent
  failures   \* history: requests that failed half way

booking == <<status, refund>>
vnpay == <<txn, acked>>
history == <<collected, notices, failures>>
vars == <<booking, payment, vnpay, job, req, history>>

-----------------------------------------------------------------------------
Statuses == {"absent", "pending", "confirmed", "cancelled"}
RefundStatuses == {"none", "pending", "refunded", "not_refunded"}
PaymentStatuses == {"none", "pending", "success", "failed", "refunded"}
JobStates == {"none", "delayed", "active", "finished"}

Request == [op : {"idle", "create", "pay", "ipn", "confirm", "cancel", "refund"},
            pc : {"idle", "schedule", "insert", "record", "removeJob", "write", "mark"},
            p : Payments \union {None},
            outcome : RefundStatuses]   \* what a cancel decided about the deposit

Idle == [op |-> "idle", pc |-> "idle", p |-> None, outcome |-> "none"]

At(w, op, pc) == req[w].op = op /\ req[w].pc = pc
Start(w, op, pc) == req' = [req EXCEPT ![w] = [Idle EXCEPT !.op = op, !.pc = pc]]
Goto(w, pc) == req' = [req EXCEPT ![w].pc = pc]
Finish(w) == req' = [req EXCEPT ![w] = Idle]

Init ==
  /\ status = "absent"
  /\ refund = "none"
  /\ payment = [p \in Payments |-> "none"]
  /\ txn = [p \in Payments |-> "none"]
  /\ acked = {}
  /\ job = "none"
  /\ req = [w \in Requests |-> Idle]
  /\ collected = FALSE
  /\ notices = 0
  /\ failures = 0

-----------------------------------------------------------------------------
(* create: the row, then the job; a job that cannot be added is only logged *)

BeginCreate(w) ==
  /\ req[w] = Idle
  /\ status = "absent"
  /\ status' = "pending"
  /\ Start(w, "create", "schedule")
  /\ UNCHANGED <<refund, payment, vnpay, job, history>>

(* Mutant: the job is never added. *)
ForgetTtl(w) ==
  /\ At(w, "create", "schedule")
  /\ Finish(w)
  /\ UNCHANGED <<booking, payment, vnpay, job, history>>

ScheduleTtl(w) ==
  /\ At(w, "create", "schedule")
  /\ job' = "delayed"
  /\ Finish(w)
  /\ UNCHANGED <<booking, payment, vnpay, history>>

-----------------------------------------------------------------------------
(* createPaymentUrl: a new payment row each time the customer asks *)

BeginPay(w) ==
  /\ req[w] = Idle
  /\ status = "pending"
  /\ Start(w, "pay", "insert")
  /\ UNCHANGED <<booking, payment, vnpay, job, history>>

(* Mutant: a row in a status the table does not know. *)
InsertCreated(w) ==
  /\ At(w, "pay", "insert")
  /\ \E p \in Payments :
       /\ payment[p] = "none"
       /\ payment' = [payment EXCEPT ![p] = "created"]
       /\ txn' = [txn EXCEPT ![p] = "open"]
  /\ Finish(w)
  /\ UNCHANGED <<booking, acked, job, history>>

(* Bound: with no row of Payments left the request gives up. *)
InsertPayment(w) ==
  /\ At(w, "pay", "insert")
  /\ \/ \E p \in Payments :
          /\ payment[p] = "none"
          /\ payment' = [payment EXCEPT ![p] = "pending"]
          /\ txn' = [txn EXCEPT ![p] = "open"]
     \/ /\ \A p \in Payments : payment[p] # "none"
        /\ UNCHANGED <<payment, txn>>
  /\ Finish(w)
  /\ UNCHANGED <<booking, acked, job, history>>

(* VNPay: the payment page has no expiry date, so the customer may use it  *)
(* whatever has become of the booking.                                     *)
CustomerAnswers(p) ==
  /\ txn[p] = "open"
  /\ \E answer \in {"paid", "declined"} : txn' = [txn EXCEPT ![p] = answer]
  /\ UNCHANGED <<booking, payment, acked, job, req, history>>

-----------------------------------------------------------------------------
(* handleIpn: VNPay calls until it is answered, and may call twice at once *)

(* Mutant: the webhook of a booking that is no longer pending is dropped. *)
BeginIpnIfPending(w, p) ==
  /\ req[w] = Idle
  /\ txn[p] \in {"paid", "declined"}
  /\ p \notin acked
  /\ status = "pending"
  /\ payment[p] = "pending"
  /\ req' = [req EXCEPT ![w] = [Idle EXCEPT !.op = "ipn", !.pc = "record", !.p = p]]
  /\ UNCHANGED <<booking, payment, vnpay, job, history>>

BeginIpn(w, p) ==
  /\ req[w] = Idle
  /\ txn[p] \in {"paid", "declined"}
  /\ p \notin acked
  /\ \/ /\ payment[p] = "pending"
        /\ req' = [req EXCEPT ![w] = [Idle EXCEPT !.op = "ipn", !.pc = "record", !.p = p]]
        /\ UNCHANGED acked
     \/ /\ payment[p] # "pending"         \* "02", Order already confirmed
        /\ acked' = acked \union {p}
        /\ UNCHANGED req
  /\ UNCHANGED <<booking, payment, txn, job, history>>

(* Mutant: the payment is recorded and acknowledged, the booking forgotten. *)
RecordOnly(w) ==
  /\ At(w, "ipn", "record")
  /\ payment' = [payment EXCEPT
                   ![req[w].p] = IF txn[req[w].p] = "paid" THEN "success" ELSE "failed"]
  /\ acked' = acked \union {req[w].p}
  /\ Finish(w)
  /\ UNCHANGED <<booking, txn, job, history>>

RecordPayment(w) ==
  LET p == req[w].p IN
  /\ At(w, "ipn", "record")
  /\ \/ /\ txn[p] = "paid"
        /\ payment' = [payment EXCEPT ![p] = "success"]
        /\ Goto(w, "removeJob")
        /\ UNCHANGED acked
     \/ /\ txn[p] = "declined"
        /\ payment' = [payment EXCEPT ![p] = "failed"]
        /\ acked' = acked \union {p}
        /\ Finish(w)
  /\ UNCHANGED <<booking, txn, job, history>>

(* Mutant: an unconditional update. *)
ConfirmPaidAlways(w) ==
  /\ At(w, "ipn", "write")
  /\ status' = "confirmed"
  /\ collected' = TRUE
  /\ notices' = notices + 1
  /\ acked' = acked \union {req[w].p}
  /\ Finish(w)
  /\ UNCHANGED <<refund, payment, txn, job, failures>>

(* The update of confirmBookingAfterPayment has its condition inside. *)
ConfirmPaid(w) ==
  /\ At(w, "ipn", "write")
  /\ \/ /\ status = "pending"
        /\ status' = "confirmed"
        /\ collected' = TRUE
        /\ notices' = notices + 1
     \/ /\ status # "pending"
        /\ UNCHANGED <<status, collected, notices>>
  /\ acked' = acked \union {req[w].p}
  /\ Finish(w)
  /\ UNCHANGED <<refund, payment, txn, job, failures>>

-----------------------------------------------------------------------------
(* confirm and cancel *)

BeginConfirm(w) ==
  /\ req[w] = Idle
  /\ status = "pending"
  /\ Start(w, "confirm", "removeJob")
  /\ UNCHANGED <<booking, payment, vnpay, job, history>>

(* Mutant: cancel does not look at whether the deposit was collected. *)
BeginCancelWithRefund(w) ==
  /\ req[w] = Idle
  /\ status \in {"pending", "confirmed"}
  /\ \E outcome \in {"pending", "not_refunded"} :
       req' = [req EXCEPT ![w] = [Idle EXCEPT !.op = "cancel", !.pc = "removeJob",
                                              !.outcome = outcome]]
  /\ UNCHANGED <<booking, payment, vnpay, job, history>>

(* How much is given back depends on the hours left before the rental: all *)
(* or half of it (pending), or nothing (not_refunded).                     *)
BeginCancel(w) ==
  /\ req[w] = Idle
  /\ status \in {"pending", "confirmed"}
  /\ \E outcome \in IF status = "pending" THEN {"none"} ELSE {"pending", "not_refunded"} :
       req' = [req EXCEPT ![w] = [Idle EXCEPT !.op = "cancel", !.pc = "removeJob",
                                              !.outcome = outcome]]
  /\ UNCHANGED <<booking, payment, vnpay, job, history>>

(* cancelTtlExpiry, and the same lines in confirmBookingAfterPayment: a    *)
(* job that is being processed is locked, job.remove() throws and the      *)
(* request ends there with what it has already written.                    *)
RemoveJob(w) ==
  /\ req[w].pc = "removeJob"
  /\ \/ /\ job # "active"
        /\ job' = "none"
        /\ Goto(w, "write")
     \/ /\ job = "active"
        /\ Finish(w)
        /\ UNCHANGED job
  /\ UNCHANGED <<booking, payment, vnpay, history>>

WriteConfirm(w) ==
  /\ At(w, "confirm", "write")
  /\ status' = "confirmed"
  /\ collected' = TRUE
  /\ Finish(w)
  /\ UNCHANGED <<refund, payment, vnpay, job, notices, failures>>

WriteCancel(w) ==
  /\ At(w, "cancel", "write")
  /\ status' = "cancelled"
  /\ refund' = IF req[w].outcome = "none" THEN refund ELSE req[w].outcome
  /\ Finish(w)
  /\ UNCHANGED <<payment, vnpay, job, history>>

-----------------------------------------------------------------------------
(* markDepositRefunded: the booking, then the VNPay payment *)

BeginRefund(w) ==
  /\ req[w] = Idle
  /\ refund = "pending"
  /\ Start(w, "refund", "write")
  /\ UNCHANGED <<booking, payment, vnpay, job, history>>

WriteRefund(w) ==
  /\ At(w, "refund", "write")
  /\ refund' = "refunded"
  /\ Goto(w, "mark")
  /\ UNCHANGED <<status, payment, vnpay, job, history>>

(* The latest successful payment; which of several it is does not matter   *)
(* here, so that payment dates are left out.                               *)
MarkPaymentRefunded(w) ==
  /\ At(w, "refund", "mark")
  /\ \/ \E p \in Payments :
          /\ payment[p] = "success"
          /\ payment' = [payment EXCEPT ![p] = "refunded"]
     \/ /\ \A p \in Payments : payment[p] # "success"
        /\ UNCHANGED payment
  /\ Finish(w)
  /\ UNCHANGED <<booking, vnpay, job, history>>

-----------------------------------------------------------------------------
(* The TTL job: expireIfStillPending reads, and then writes *)

(* Mutant: the test of the status is turned round. *)
ExpiryStartsIfSettled ==
  /\ job = "delayed"
  /\ job' = IF status = "pending" THEN "finished" ELSE "active"
  /\ UNCHANGED <<booking, payment, vnpay, req, history>>

ExpiryStarts ==
  /\ job = "delayed"
  /\ job' = IF status = "pending" THEN "active" ELSE "finished"
  /\ UNCHANGED <<booking, payment, vnpay, req, history>>

ExpiryWrites ==
  /\ job = "active"
  /\ status' = "cancelled"
  /\ job' = "finished"
  /\ UNCHANGED <<refund, payment, vnpay, req, history>>

(* An error fails the job for good, since it has one attempt; a restart    *)
(* makes it stall and run again.                                           *)
ExpiryFails ==
  /\ job = "active"
  /\ failures < MaxFailures
  /\ failures' = failures + 1
  /\ job' \in {"finished", "delayed"}
  /\ UNCHANGED <<booking, payment, vnpay, req, collected, notices>>

(* A request dies between two statements: an error of either store, or a   *)
(* restart.  What it has written stays.                                    *)
Fail(w) ==
  /\ req[w] # Idle
  /\ failures < MaxFailures
  /\ failures' = failures + 1
  /\ Finish(w)
  /\ UNCHANGED <<booking, payment, vnpay, job, collected, notices>>

-----------------------------------------------------------------------------
Step(w) ==
  \/ ScheduleTtl(w) \/ InsertPayment(w) \/ RecordPayment(w) \/ ConfirmPaid(w)
  \/ RemoveJob(w) \/ WriteConfirm(w) \/ WriteCancel(w)
  \/ WriteRefund(w) \/ MarkPaymentRefunded(w)

Arrive(w) ==
  \/ BeginCreate(w) \/ BeginPay(w) \/ BeginConfirm(w) \/ BeginCancel(w) \/ BeginRefund(w)
  \/ \E p \in Payments : BeginIpn(w, p)

Next ==
  \/ \E w \in Requests : Arrive(w) \/ Step(w) \/ Fail(w)
  \/ \E p \in Payments : CustomerAnswers(p)
  \/ ExpiryStarts \/ ExpiryWrites \/ ExpiryFails

Spec == Init /\ [][Next]_vars

(* A request in progress goes on, BullMQ runs a job that is due, and VNPay *)
(* repeats its call until it is answered.                                  *)
Fairness ==
  /\ \A w \in Requests : WF_vars(Step(w))
  /\ WF_vars(ExpiryStarts) /\ WF_vars(ExpiryWrites)
  /\ \A p \in Payments : SF_vars(\E w \in Requests : BeginIpn(w, p))

FairSpec == Spec /\ Fairness

-----------------------------------------------------------------------------
(* Properties *)

TypeOK ==
  /\ status \in Statuses
  /\ refund \in RefundStatuses
  /\ payment \in [Payments -> PaymentStatuses]
  /\ txn \in [Payments -> {"none", "open", "paid", "declined"}]
  /\ acked \subseteq Payments
  /\ job \in JobStates
  /\ req \in [Requests -> Request]
  /\ collected \in BOOLEAN
  /\ notices \in Nat
  /\ failures \in 0 .. MaxFailures

(* A refund is decided only for a booking whose deposit was once           *)
(* collected, however stale the row the cancellation decided on.           *)
NoRefundWithoutDeposit == refund # "none" => collected

(* The customer is told once that the payment has arrived, with two        *)
(* payments paid, webhooks repeated and webhooks running side by side.     *)
PaidNoticeOnce == notices <= 1

(* A late webhook does not bring a cancelled booking back; only a staff    *)
(* confirmation that read it before can.                                   *)
WebhookNeverRevives ==
  [][status = "cancelled" /\ status' = "confirmed" =>
       \E w \in Requests : At(w, "confirm", "write") /\ req'[w] = Idle]_vars

(* A pending booking is never abandoned: its job will run, or a request    *)
(* that has removed the job (or has yet to add it) is about to decide.     *)
(* Only a request that failed half way leaves it to the staff.             *)
PendingIsWatched ==
  status = "pending" =>
    \/ job \in {"delayed", "active"}
    \/ \E w \in Requests : \/ At(w, "create", "schedule")
                           \/ req[w].op # "refund" /\ req[w].pc = "write"
    \/ failures > 0

(* A paid booking does not stay pending: the webhook is on its way to      *)
(* confirm it, or the job that made job.remove() throw to cancel it.       *)
PaidIsNotLeftPending ==
  (\E p \in Payments : payment[p] = "success") /\ status = "pending" =>
    \/ \E w \in Requests : req[w].op = "ipn" /\ req[w].pc \in {"removeJob", "write"}
    \/ job = "active"
    \/ failures > 0

(* A pending booking gives its period back or becomes a rental. *)
PendingEnds == status = "pending" ~> status # "pending" \/ failures > 0

(* Whatever VNPay reports reaches the payment row, also after failures and *)
(* for a booking that has ended.                                           *)
PaymentsSettle ==
  \A p \in Payments : txn[p] \in {"paid", "declined"} ~> payment[p] \notin {"none", "pending"}

(* schema.prisma: "none" is the refund status of a booking whose deposit   *)
(* has not been collected, or that has not come to the refund yet.  So a   *)
(* cancelled booking with a successful payment has a decision.             *)
NoForgottenDeposit ==
  /\ status = "cancelled"
  /\ \E p \in Payments : payment[p] = "success"
  /\ \A w \in Requests : req[w] = Idle
  => refund # "none"
=============================================================================
