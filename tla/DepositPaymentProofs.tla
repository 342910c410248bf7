------------------------ MODULE DepositPaymentProofs ------------------------
(***************************************************************************)
(* Theorems about DepositPayment, for any number of requests, payments and *)
(* failures.                                                               *)
(***************************************************************************)
EXTENDS DepositPayment, TLAPS

USE FailuresAreCounted, NoneIsNoPayment

-----------------------------------------------------------------------------
(* Typing *)

(* A webhook works on a payment row. *)
WebhooksOK == \A w \in Requests : req[w].op = "ipn" => req[w].p \in Payments

LEMMA InitTyped == Init => TypeOK /\ WebhooksOK
  <1>1. Init => req \in [Requests -> Request] /\ WebhooksOK
    BY DEF Init, Request, Idle, RefundStatuses, WebhooksOK
  <1>2. Init => failures \in 0 .. MaxFailures /\ notices \in Nat
    BY DEF Init
  <1>3. QED
    BY <1>1, <1>2 DEF Init, TypeOK, Statuses, RefundStatuses, PaymentStatuses, JobStates

LEMMA RequestTyped ==
  ASSUME TypeOK, NEW w \in Requests, NEW r \in Request, req' = [req EXCEPT ![w] = r]
  PROVE  req' \in [Requests -> Request]
  BY DEF TypeOK

LEMMA MovesTyped ==
  ASSUME TypeOK, NEW w \in Requests
  PROVE  /\ Finish(w) => req' \in [Requests -> Request]
         /\ \A pc \in {"idle", "schedule", "insert", "record", "removeJob", "write", "mark"} :
              Goto(w, pc) => req' \in [Requests -> Request]
  <1>1. Idle \in Request
    BY DEF Idle, Request, RefundStatuses
  <1>2. \A pc \in {"idle", "schedule", "insert", "record", "removeJob", "write", "mark"} :
          [req[w] EXCEPT !.pc = pc] \in Request
    BY DEF TypeOK, Request
  <1>3. QED BY <1>1, <1>2 DEF Finish, Goto, TypeOK

LEMMA StartTyped ==
  ASSUME TypeOK, NEW w \in Requests, Arrive(w)
  PROVE  req' \in [Requests -> Request]
  <1> USE DEF Idle, Request, RefundStatuses
  <1>1. ASSUME NEW op \in {"create", "pay", "confirm", "refund"},
               NEW pc \in {"schedule", "insert", "removeJob", "write"}, Start(w, op, pc)
        PROVE  req' \in [Requests -> Request]
    <2>1. [Idle EXCEPT !.op = op, !.pc = pc] \in Request
      OBVIOUS
    <2>2. QED BY <1>1, <2>1, RequestTyped DEF Start
  <1>2. ASSUME NEW outcome \in RefundStatuses,
               req' = [req EXCEPT ![w] = [Idle EXCEPT !.op = "cancel", !.pc = "removeJob",
                                                      !.outcome = outcome]]
        PROVE  req' \in [Requests -> Request]
    <2>1. [Idle EXCEPT !.op = "cancel", !.pc = "removeJob", !.outcome = outcome] \in Request
      OBVIOUS
    <2>2. QED BY <1>2, <2>1, RequestTyped
  <1>3. ASSUME NEW p \in Payments,
               req' = [req EXCEPT ![w] = [Idle EXCEPT !.op = "ipn", !.pc = "record", !.p = p]]
        PROVE  req' \in [Requests -> Request]
    <2>1. [Idle EXCEPT !.op = "ipn", !.pc = "record", !.p = p] \in Request
      OBVIOUS
    <2>2. QED BY <1>3, <2>1, RequestTyped
  <1>4. BeginCreate(w) \/ BeginPay(w) \/ BeginConfirm(w) \/ BeginRefund(w)
          => req' \in [Requests -> Request]
    BY <1>1 DEF BeginCreate, BeginPay, BeginConfirm, BeginRefund
  <1>5. BeginCancel(w) => req' \in [Requests -> Request]
    BY <1>2 DEF BeginCancel
  <1>6. (\E p \in Payments : BeginIpn(w, p)) => req' \in [Requests -> Request]
    BY <1>3 DEF BeginIpn, TypeOK
  <1>7. QED BY <1>4, <1>5, <1>6 DEF Arrive

(* The actions, by what they change besides the requests. *)
LEMMA ArriveTyped ==
  ASSUME TypeOK, NEW w \in Requests, Arrive(w)
  PROVE  TypeOK'
  <1>1. UNCHANGED <<refund, payment, txn, job, collected, notices, failures>>
    BY DEF Arrive, BeginCreate, BeginPay, BeginConfirm, BeginCancel, BeginRefund, BeginIpn,
           booking, vnpay, history
  <1>2. status' \in Statuses /\ acked' \subseteq Payments
    BY DEF Arrive, BeginCreate, BeginPay, BeginConfirm, BeginCancel, BeginRefund, BeginIpn,
           booking, vnpay, Statuses, TypeOK
  <1>3. QED BY <1>1, <1>2, StartTyped DEF TypeOK

LEMMA StepTyped ==
  ASSUME TypeOK, WebhooksOK, NEW w \in Requests, Step(w)
  PROVE  TypeOK'
  <1>1. req' \in [Requests -> Request]
    BY MovesTyped DEF Step, ScheduleTtl, InsertPayment, RecordPayment, ConfirmPaid, RemoveJob,
                      WriteConfirm, WriteCancel, WriteRefund, MarkPaymentRefunded
  <1>2. req[w] \in Request
    BY DEF TypeOK
  <1>3. /\ status' \in {status, "confirmed", "cancelled"}
        /\ collected' \in {collected, TRUE}
        /\ notices' \in {notices, notices + 1}
        /\ failures' = failures
    BY DEF Step, ScheduleTtl, InsertPayment, RecordPayment, ConfirmPaid, RemoveJob, WriteConfirm,
           WriteCancel, WriteRefund, MarkPaymentRefunded, booking, history
  <1>4. refund' \in RefundStatuses /\ job' \in JobStates
    BY <1>2 DEF Step, ScheduleTtl, InsertPayment, RecordPayment, ConfirmPaid, RemoveJob, WriteConfirm,
           WriteCancel, WriteRefund, MarkPaymentRefunded, booking, TypeOK, Request,
           RefundStatuses, JobStates
  <1>5. payment' \in [Payments -> PaymentStatuses]
    BY <1>2 DEF Step, ScheduleTtl, InsertPayment, RecordPayment, ConfirmPaid, RemoveJob, WriteConfirm,
           WriteCancel, WriteRefund, MarkPaymentRefunded, TypeOK, PaymentStatuses
  <1>6. /\ txn' \in [Payments -> {"none", "open", "paid", "declined"}]
        /\ acked' \subseteq Payments
    <2>1. CASE InsertPayment(w)
      BY <2>1 DEF InsertPayment, TypeOK
    <2>2. CASE RecordPayment(w) \/ ConfirmPaid(w)
      <3>1. txn' = txn
        BY <2>2 DEF RecordPayment, ConfirmPaid
      <3>2. acked' = acked \/ acked' = acked \union {req[w].p}
        BY <2>2 DEF RecordPayment, ConfirmPaid
      <3>3. req[w].p \in Payments
        BY <2>2 DEF RecordPayment, ConfirmPaid, At, WebhooksOK
      <3>4. QED BY <3>1, <3>2, <3>3 DEF TypeOK
    <2>3. CASE ~InsertPayment(w) /\ ~RecordPayment(w) /\ ~ConfirmPaid(w)
      BY <2>3 DEF Step, ScheduleTtl, RemoveJob, WriteConfirm, WriteCancel, WriteRefund,
                  MarkPaymentRefunded, vnpay, TypeOK
    <2>4. QED BY <2>1, <2>2, <2>3
  <1>7. status' \in Statuses /\ collected' \in BOOLEAN /\ failures' \in 0 .. MaxFailures
    BY <1>3 DEF TypeOK, Statuses
  <1>8. notices' \in Nat
    BY <1>3 DEF TypeOK
  <1>9. QED BY <1>1, <1>4, <1>5, <1>6, <1>7, <1>8 DEF TypeOK

(* What the job, the customer and a failure change. *)
Outside ==
  \/ \E w \in Requests : Fail(w)
  \/ \E p \in Payments : CustomerAnswers(p)
  \/ ExpiryStarts \/ ExpiryWrites \/ ExpiryFails

LEMMA OutsideTyped ==
  ASSUME TypeOK, Outside
  PROVE  TypeOK'
  <1>1. CASE \E w \in Requests : Fail(w)
    <2>1. failures' \in 0 .. MaxFailures
      BY <1>1 DEF Fail, TypeOK
    <2>2. req' \in [Requests -> Request]
      BY <1>1, MovesTyped DEF Fail
    <2>3. QED BY <1>1, <2>1, <2>2 DEF Fail, TypeOK, booking, vnpay
  <1>2. CASE \E p \in Payments : CustomerAnswers(p)
    BY <1>2 DEF CustomerAnswers, TypeOK, booking, history
  <1>3. CASE ExpiryStarts \/ ExpiryWrites
    BY <1>3 DEF ExpiryStarts, ExpiryWrites, TypeOK, booking, vnpay, history, Statuses, JobStates
  <1>4. CASE ExpiryFails
    <2>1. failures' \in 0 .. MaxFailures
      BY <1>4 DEF ExpiryFails, TypeOK
    <2>2. QED BY <1>4, <2>1 DEF ExpiryFails, TypeOK, booking, vnpay, JobStates
  <1>5. QED BY <1>1, <1>2, <1>3, <1>4 DEF Outside

LEMMA NextIsKnown ==
  Next <=> (\E w \in Requests : Arrive(w) \/ Step(w)) \/ Outside
  BY DEF Next, Outside

LEMMA WebhooksKept ==
  ASSUME TypeOK, WebhooksOK, [Next]_vars
  PROVE  WebhooksOK'
  <1>1. CASE req' = req
    BY <1>1 DEF WebhooksOK
  <1>2. ASSUME NEW w \in Requests, NEW r, req' = [req EXCEPT ![w] = r],
               r.op = "ipn" => r.p \in Payments
        PROVE  WebhooksOK'
    BY <1>2 DEF WebhooksOK, TypeOK
  <1>3. ASSUME NEW w \in Requests, Finish(w) PROVE WebhooksOK'
    BY <1>2, <1>3 DEF Finish, Idle
  <1>4. ASSUME NEW w \in Requests, NEW pc, Goto(w, pc) PROVE WebhooksOK'
    BY <1>4 DEF Goto, WebhooksOK, TypeOK, Request
  <1>5. ASSUME NEW w \in Requests, NEW op, NEW pc, Start(w, op, pc), op # "ipn" PROVE WebhooksOK'
    BY <1>5 DEF Start, Idle, WebhooksOK, TypeOK
  <1>6. ASSUME NEW w \in Requests, Arrive(w) PROVE WebhooksOK'
    <2>1. CASE BeginCreate(w) \/ BeginPay(w) \/ BeginConfirm(w) \/ BeginRefund(w)
      BY <1>5, <2>1 DEF BeginCreate, BeginPay, BeginConfirm, BeginRefund
    <2>2. CASE BeginCancel(w)
      BY <2>2 DEF BeginCancel, Idle, WebhooksOK, TypeOK
    <2>3. CASE \E p \in Payments : BeginIpn(w, p)
      <3>1. PICK p \in Payments : BeginIpn(w, p)
        BY <2>3
      <3>2. [Idle EXCEPT !.op = "ipn", !.pc = "record", !.p = p].p = p
        BY DEF Idle
      <3>3. QED BY <1>1, <1>2, <3>1, <3>2 DEF BeginIpn
    <2>4. QED BY <1>6, <2>1, <2>2, <2>3 DEF Arrive
  <1>7. ASSUME NEW w \in Requests, Step(w) PROVE WebhooksOK'
    BY <1>3, <1>4, <1>7 DEF Step, ScheduleTtl, InsertPayment, RecordPayment, ConfirmPaid, RemoveJob,
                      WriteConfirm, WriteCancel, WriteRefund, MarkPaymentRefunded
  <1>8. Outside => WebhooksOK'
    BY <1>1, <1>3 DEF Outside, Fail, CustomerAnswers, ExpiryStarts, ExpiryWrites, ExpiryFails
  <1>9. QED BY <1>1, <1>6, <1>7, <1>8, NextIsKnown DEF vars

(* Every variable keeps its type. *)
THEOREM DepositTyped == Spec => []TypeOK
  <1> DEFINE Typed == TypeOK /\ WebhooksOK
  <1>1. Typed /\ [Next]_vars => Typed'
    <2> SUFFICES ASSUME Typed, [Next]_vars PROVE Typed'
      OBVIOUS
    <2>1. CASE UNCHANGED vars
      BY <2>1 DEF vars, booking, vnpay, history, TypeOK, WebhooksOK
    <2>2. CASE Next
      BY <2>2, WebhooksKept, ArriveTyped, StepTyped, OutsideTyped, NextIsKnown
    <2>3. QED BY <2>1, <2>2
  <1>2. Init => Typed
    BY InitTyped
  <1> HIDE DEF Typed
  <1>3. Spec => []Typed
    BY <1>1, <1>2, PTL DEF Spec
  <1>4. QED BY <1>3, PTL DEF Typed

-----------------------------------------------------------------------------
(* Money: a refund needs a collected deposit *)

(* What the refund status and the requests that will write it rest on. *)
MoneyInv ==
  /\ NoRefundWithoutDeposit
  /\ status = "confirmed" => collected
  /\ \A w \in Requests : req[w].outcome # "none" \/ req[w].op = "refund" => collected

LEMMA MoneyKept ==
  ASSUME TypeOK, MoneyInv, [Next]_vars
  PROVE  MoneyInv'
  <1> USE DEF MoneyInv, NoRefundWithoutDeposit
  <1>1. ASSUME NEW w \in Requests, NEW r, req' = [req EXCEPT ![w] = r],
               r.outcome # "none" \/ r.op = "refund" => collected, collected => collected',
               refund' # "none" => collected', status' = "confirmed" => collected'
        PROVE  MoneyInv'
    BY <1>1 DEF TypeOK
  <1>2. ASSUME NEW w \in Requests, Finish(w), collected => collected',
               refund' # "none" => collected', status' = "confirmed" => collected'
        PROVE  MoneyInv'
    BY <1>1, <1>2 DEF Finish, Idle
  <1>3. ASSUME NEW w \in Requests, NEW pc, Goto(w, pc), collected => collected',
               refund' # "none" => collected', status' = "confirmed" => collected'
        PROVE  MoneyInv'
    BY <1>3 DEF Goto, TypeOK, Request
  <1>4. ASSUME NEW w \in Requests, NEW op, NEW pc, Start(w, op, pc), op = "refund" => collected,
               UNCHANGED <<refund, collected>>, status' = "confirmed" => collected
        PROVE  MoneyInv'
    BY <1>4 DEF Start, Idle, TypeOK
  <1>5. ASSUME NEW w \in Requests, Arrive(w) PROVE MoneyInv'
    <2>1. CASE BeginCreate(w) \/ BeginPay(w) \/ BeginConfirm(w) \/ BeginRefund(w)
      BY <1>4, <2>1 DEF BeginCreate, BeginPay, BeginConfirm, BeginRefund, booking, history
    <2>2. CASE BeginCancel(w)
      <3>1. PICK outcome : /\ req' = [req EXCEPT ![w] = [Idle EXCEPT !.op = "cancel",
                                          !.pc = "removeJob", !.outcome = outcome]]
                           /\ outcome # "none" => status = "confirmed"
        BY <2>2 DEF BeginCancel
      <3>2. /\ [Idle EXCEPT !.op = "cancel", !.pc = "removeJob", !.outcome = outcome].op = "cancel"
            /\ [Idle EXCEPT !.op = "cancel", !.pc = "removeJob", !.outcome = outcome].outcome = outcome
        BY DEF Idle
      <3>3. QED BY <1>1, <2>2, <3>1, <3>2 DEF BeginCancel, booking, history
    <2>3. CASE \E p \in Payments : BeginIpn(w, p)
      <3>1. PICK p \in Payments : BeginIpn(w, p)
        BY <2>3
      <3>2. /\ [Idle EXCEPT !.op = "ipn", !.pc = "record", !.p = p].op = "ipn"
            /\ [Idle EXCEPT !.op = "ipn", !.pc = "record", !.p = p].outcome = "none"
        BY DEF Idle
      <3>3. CASE req' = req
        BY <3>1, <3>3 DEF BeginIpn, booking, history
      <3>4. QED BY <1>1, <3>1, <3>2, <3>3 DEF BeginIpn, booking, history
    <2>4. QED BY <1>5, <2>1, <2>2, <2>3 DEF Arrive
  <1>6. ASSUME NEW w \in Requests, Step(w) PROVE MoneyInv'
    <2>1. CASE ScheduleTtl(w) \/ InsertPayment(w) \/ RecordPayment(w) \/ RemoveJob(w)
               \/ MarkPaymentRefunded(w)
      BY <1>2, <1>3, <2>1 DEF ScheduleTtl, InsertPayment, RecordPayment, RemoveJob,
                              MarkPaymentRefunded, booking, history
    <2>2. CASE ConfirmPaid(w) \/ WriteConfirm(w)
      BY <1>2, <2>2 DEF ConfirmPaid, WriteConfirm, TypeOK
    <2>3. CASE WriteCancel(w)
      BY <1>2, <2>3 DEF WriteCancel, history
    <2>4. CASE WriteRefund(w)
      BY <1>3, <2>4 DEF WriteRefund, At, history
    <2>5. QED BY <1>6, <2>1, <2>2, <2>3, <2>4 DEF Step
  <1>7. ASSUME Outside PROVE MoneyInv'
    <2>1. CASE \E w \in Requests : Fail(w)
      BY <1>2, <2>1 DEF Fail, booking
    <2>2. CASE ~\E w \in Requests : Fail(w)
      BY <1>7, <2>2 DEF Outside, CustomerAnswers, ExpiryStarts, ExpiryWrites, ExpiryFails, booking, history
    <2>3. QED BY <2>1, <2>2
  <1>8. UNCHANGED vars => MoneyInv'
    BY DEF vars, booking, history
  <1>9. QED BY <1>5, <1>6, <1>7, <1>8, NextIsKnown

(* No refund without a deposit: a cancellation that decides on a stale row *)
(* never promises money for a booking that was never confirmed.            *)
THEOREM RefundsRestOnDeposits == Spec => []NoRefundWithoutDeposit
  <1>1. Init => MoneyInv
    BY DEF Init, MoneyInv, NoRefundWithoutDeposit, Idle
  <1>2. Spec => []MoneyInv
    BY <1>1, MoneyKept, DepositTyped, PTL DEF Spec
  <1>3. QED BY <1>2, PTL DEF MoneyInv

-----------------------------------------------------------------------------
(* Notices *)

NoticeInv ==
  /\ notices \in {0, 1}
  /\ status \in {"absent", "pending"} => notices = 0

LEMMA NoticeKept ==
  ASSUME TypeOK, NoticeInv, [Next]_vars
  PROVE  NoticeInv'
  <1>1. CASE \E w \in Requests : ConfirmPaid(w)
    BY <1>1 DEF ConfirmPaid, NoticeInv
  <1>2. CASE notices' = notices /\ (status' \in {"absent", "pending"} => status \in {"absent", "pending"})
    BY <1>2 DEF NoticeInv
  <1>3. ASSUME NEW w \in Requests, Step(w), ~ConfirmPaid(w)
        PROVE  notices' = notices /\ status' \in {status, "confirmed", "cancelled"}
    BY <1>3 DEF Step, ScheduleTtl, InsertPayment, RecordPayment, RemoveJob, WriteConfirm,
                WriteCancel, WriteRefund, MarkPaymentRefunded, booking, history
  <1>4. ASSUME NEW w \in Requests, Arrive(w)
        PROVE  /\ notices' = notices
               /\ status' = status \/ (status = "absent" /\ status' = "pending")
    <2>1. (\E p \in Payments : BeginIpn(w, p)) => notices' = notices /\ status' = status
      BY DEF BeginIpn, booking, history
    <2>2. BeginCancel(w) => notices' = notices /\ status' = status
      BY DEF BeginCancel, booking, history
    <2>3. BeginPay(w) \/ BeginConfirm(w) \/ BeginRefund(w) => notices' = notices /\ status' = status
      BY DEF BeginPay, BeginConfirm, BeginRefund, booking, history
    <2>4. BeginCreate(w) => notices' = notices /\ status = "absent" /\ status' = "pending"
      BY DEF BeginCreate, history
    <2>5. QED BY <1>4, <2>1, <2>2, <2>3, <2>4 DEF Arrive
  <1>5. Outside => notices' = notices /\ status' \in {status, "cancelled"}
    BY DEF Outside, Fail, CustomerAnswers, ExpiryStarts, ExpiryWrites, ExpiryFails, booking, history
  <1>6. UNCHANGED vars => notices' = notices /\ status' = status
    BY DEF vars, booking, history
  <1>7. QED BY <1>1, <1>2, <1>3, <1>4, <1>5, <1>6, NextIsKnown

(* At most one "payment received" notice, whatever VNPay repeats. *)
THEOREM OnePaidNotice == Spec => []PaidNoticeOnce
  <1>1. Init => NoticeInv
    BY DEF Init, NoticeInv
  <1>2. Spec => []NoticeInv
    BY <1>1, NoticeKept, DepositTyped, PTL DEF Spec
  <1>3. NoticeInv => PaidNoticeOnce
    BY DEF NoticeInv, PaidNoticeOnce
  <1>4. QED BY <1>2, <1>3, PTL

-----------------------------------------------------------------------------
(* Nobody forgets a pending booking *)

Watcher(w) ==
  \/ At(w, "create", "schedule")
  \/ req[w].op # "refund" /\ req[w].pc = "write"

WatchInv ==
  /\ PendingIsWatched
  /\ \A w \in Requests : req[w].pc = "removeJob" => req[w].op # "refund"

LEMMA Watching ==
  PendingIsWatched <=>
    (status = "pending" => \/ job \in {"delayed", "active"}
                           \/ \E w \in Requests : Watcher(w)
                           \/ failures > 0)
  BY DEF PendingIsWatched, Watcher

(* One request changes; the others watch as before. *)
LEMMA OthersWatch ==
  ASSUME TypeOK, WatchInv, NEW w \in Requests, NEW r, req' = [req EXCEPT ![w] = r],
         r.pc = "removeJob" => r.op # "refund", failures' = failures, status' = status,
         \/ job' \in {"delayed", "active"}
         \/ job' = job /\ ~Watcher(w)
         \/ r.op # "refund" /\ r.pc = "write"
  PROVE  WatchInv'
  <1>1. req'[w] = r /\ \A v \in Requests \ {w} : req'[v] = req[v]
    BY DEF TypeOK
  <1>2. \A v \in Requests : req'[v].pc = "removeJob" => req'[v].op # "refund"
    BY <1>1 DEF WatchInv
  <1>3. CASE job' \in {"delayed", "active"}
    BY <1>2, <1>3 DEF WatchInv, PendingIsWatched
  <1>4. CASE r.op # "refund" /\ r.pc = "write"
    BY <1>1, <1>2, <1>4 DEF WatchInv, PendingIsWatched
  <1>5. CASE job' = job /\ ~Watcher(w)
    BY <1>1, <1>2, <1>5 DEF WatchInv, PendingIsWatched, Watcher, At
  <1>6. QED BY <1>3, <1>4, <1>5

(* A step that ends the pending state needs no watcher. *)
LEMMA Decided ==
  ASSUME TypeOK, WatchInv, NEW w \in Requests, Finish(w), status' # "pending"
  PROVE  WatchInv'
  BY DEF WatchInv, PendingIsWatched, Finish, Idle, TypeOK

LEMMA WatchKept ==
  ASSUME TypeOK, WatchInv, [Next]_vars
  PROVE  WatchInv'
  <1>1. ASSUME NEW w \in Requests, Arrive(w) PROVE WatchInv'
    <2>1. CASE BeginCreate(w)
      <3>1. req'[w] = [Idle EXCEPT !.op = "create", !.pc = "schedule"]
        BY <2>1 DEF BeginCreate, Start, TypeOK
      <3>2. At(w, "create", "schedule")'
        BY <3>1 DEF At, Idle
      <3>3. \A v \in Requests : req'[v].pc = "removeJob" => req'[v].op # "refund"
        BY <2>1, <3>1 DEF BeginCreate, Start, TypeOK, WatchInv, Idle
      <3>4. QED BY <3>2, <3>3 DEF WatchInv, PendingIsWatched, At
    <2>2. ASSUME req[w] = Idle, NEW r, req' = [req EXCEPT ![w] = r],
                 r.pc = "removeJob" => r.op # "refund",
                 UNCHANGED <<status, job, failures>>
          PROVE  WatchInv'
      <3>1. ~Watcher(w)
        BY <2>2 DEF Watcher, At, Idle
      <3>2. QED BY <2>2, <3>1, OthersWatch
    <2>3. CASE BeginPay(w) \/ BeginConfirm(w) \/ BeginRefund(w)
      <3>1. PICK op, pc : Start(w, op, pc) /\ (pc = "removeJob" => op # "refund")
        BY <2>3 DEF BeginPay, BeginConfirm, BeginRefund
      <3>2. PICK r : /\ req' = [req EXCEPT ![w] = r]
                     /\ r.pc = "removeJob" => r.op # "refund"
        <4>1. /\ [Idle EXCEPT !.op = op, !.pc = pc].op = op
              /\ [Idle EXCEPT !.op = op, !.pc = pc].pc = pc
          BY DEF Idle
        <4>2. QED BY <3>1, <4>1 DEF Start
      <3>3. req[w] = Idle /\ UNCHANGED <<status, job, failures>>
        BY <2>3 DEF BeginPay, BeginConfirm, BeginRefund, booking, history
      <3>4. QED BY <2>2, <3>2, <3>3
    <2>4. CASE BeginCancel(w)
      <3>1. PICK outcome : req' = [req EXCEPT ![w] = [Idle EXCEPT !.op = "cancel",
                                          !.pc = "removeJob", !.outcome = outcome]]
        BY <2>4 DEF BeginCancel
      <3>2. [Idle EXCEPT !.op = "cancel", !.pc = "removeJob", !.outcome = outcome].op = "cancel"
        BY DEF Idle
      <3>3. QED BY <2>2, <2>4, <3>1, <3>2 DEF BeginCancel, booking, history
    <2>5. CASE \E p \in Payments : BeginIpn(w, p)
      <3>1. PICK p \in Payments : BeginIpn(w, p)
        BY <2>5
      <3>2. [Idle EXCEPT !.op = "ipn", !.pc = "record", !.p = p].op = "ipn"
        BY DEF Idle
      <3>3. CASE req' = req
        BY <3>1, <3>3 DEF BeginIpn, booking, history, WatchInv, PendingIsWatched, At
      <3>4. QED BY <2>2, <3>1, <3>2, <3>3 DEF BeginIpn, booking, history
    <2>6. QED BY <1>1, <2>1, <2>3, <2>4, <2>5 DEF Arrive
  <1>2. ASSUME NEW w \in Requests, Step(w) PROVE WatchInv'
    <2>1. CASE ScheduleTtl(w)
      BY <2>1, OthersWatch DEF ScheduleTtl, Finish, Idle, booking, history
    <2>2. CASE InsertPayment(w) \/ MarkPaymentRefunded(w)
      <3>1. ~Watcher(w)
        BY <2>2 DEF InsertPayment, MarkPaymentRefunded, Watcher, At
      <3>2. QED BY <2>2, <3>1, OthersWatch DEF InsertPayment, MarkPaymentRefunded, Finish, Idle,
                                              booking, history
    <2>3. CASE RecordPayment(w)
      <3>1. ~Watcher(w) /\ req[w].op = "ipn"
        BY <2>3 DEF RecordPayment, Watcher, At
      <3>2. PICK r : req' = [req EXCEPT ![w] = r] /\ (r.pc = "removeJob" => r.op # "refund")
        BY <2>3, <3>1 DEF RecordPayment, Goto, Finish, Idle, TypeOK, Request
      <3>3. QED BY <2>3, <3>1, <3>2, OthersWatch DEF RecordPayment, booking, history
    <2>4. CASE RemoveJob(w)
      <3>1. req[w].op # "refund" /\ req[w].pc = "removeJob"
        BY <2>4 DEF RemoveJob, WatchInv
      <3>2. CASE job = "active" /\ job' = job /\ Finish(w)
        BY <2>4, <3>2, OthersWatch DEF RemoveJob, Finish, Idle, booking, history
      <3>3. CASE Goto(w, "write")
        <4>1. PICK r : r = [req[w] EXCEPT !.pc = "write"]
          OBVIOUS
        <4>2. req' = [req EXCEPT ![w] = r] /\ r.op # "refund" /\ r.pc = "write"
          BY <3>1, <3>3, <4>1 DEF Goto, TypeOK, Request
        <4>3. QED BY <2>4, <4>2, OthersWatch DEF RemoveJob, booking, history
      <3>4. QED BY <2>4, <3>2, <3>3 DEF RemoveJob
    <2>5. CASE ConfirmPaid(w) \/ WriteConfirm(w) \/ WriteCancel(w)
      BY <2>5, Decided DEF ConfirmPaid, WriteConfirm, WriteCancel
    <2>6. CASE WriteRefund(w)
      <3>1. ~Watcher(w)
        BY <2>6 DEF WriteRefund, Watcher, At
      <3>2. PICK r : r = [req[w] EXCEPT !.pc = "mark"]
        OBVIOUS
      <3>3. req' = [req EXCEPT ![w] = r] /\ r.pc = "mark"
        BY <2>6, <3>2 DEF WriteRefund, Goto, TypeOK, Request
      <3>4. QED BY <2>6, <3>1, <3>3, OthersWatch DEF WriteRefund, history
    <2>7. QED BY <1>2, <2>1, <2>2, <2>3, <2>4, <2>5, <2>6 DEF Step
  <1>3. ASSUME Outside PROVE WatchInv'
    <2>1. CASE \E w \in Requests : Fail(w)
      <3>1. failures' > 0
        BY <2>1 DEF Fail, TypeOK
      <3>2. \A v \in Requests : req'[v].pc = "removeJob" => req'[v].op # "refund"
        BY <2>1 DEF Fail, Finish, Idle, WatchInv, TypeOK
      <3>3. QED BY <3>1, <3>2 DEF WatchInv, PendingIsWatched
    <2>2. CASE \E p \in Payments : CustomerAnswers(p)
      BY <2>2 DEF CustomerAnswers, booking, history, WatchInv, PendingIsWatched, At
    <2>3. CASE ExpiryStarts \/ ExpiryWrites
      BY <2>3 DEF ExpiryStarts, ExpiryWrites, booking, history, WatchInv, PendingIsWatched, At
    <2>4. CASE ExpiryFails
      <3>1. failures' > 0
        BY <2>4 DEF ExpiryFails, TypeOK
      <3>2. QED BY <2>4, <3>1 DEF ExpiryFails, WatchInv, PendingIsWatched
    <2>5. QED BY <1>3, <2>1, <2>2, <2>3, <2>4 DEF Outside
  <1>4. UNCHANGED vars => WatchInv'
    BY DEF vars, booking, history, WatchInv, PendingIsWatched, At
  <1>5. QED BY <1>1, <1>2, <1>3, <1>4, NextIsKnown

(* While no request has failed half way, a pending booking always has its  *)
(* job in the queue or a request about to decide it.                       *)
THEOREM PendingAlwaysWatched == Spec => []PendingIsWatched
  <1>1. Init => WatchInv
    BY DEF Init, WatchInv, PendingIsWatched, Idle
  <1>2. Spec => []WatchInv
    BY <1>1, WatchKept, DepositTyped, PTL DEF Spec
  <1>3. QED BY <1>2, PTL DEF WatchInv

-----------------------------------------------------------------------------
(* The job is added once, by the request that created the booking *)

JobInv ==
  /\ status = "absent" => job = "none" /\ \A w \in Requests : req[w].op # "create"
  /\ \A w \in Requests : req[w].op = "create" =>
       job = "none" /\ \A v \in Requests : req[v].op = "create" => v = w

(* One request goes on, or takes up something other than a creation. *)
LEMMA OthersCreate ==
  ASSUME TypeOK, JobInv, NEW w \in Requests, NEW r, req' = [req EXCEPT ![w] = r],
         r.op = "create" => req[w].op = "create",
         status' = "absent" => status = "absent",
         job' \in {job, "none"}
  PROVE  JobInv'
  BY DEF JobInv, TypeOK

LEMMA JobKept ==
  ASSUME TypeOK, JobInv, [Next]_vars
  PROVE  JobInv'
  <1>1. Idle.op = "idle"
    BY DEF Idle
  <1>2. ASSUME NEW w \in Requests, Arrive(w) PROVE JobInv'
    <2>1. CASE BeginCreate(w)
      <3>1. req'[w].op = "create" /\ \A v \in Requests \ {w} : req'[v] = req[v]
        BY <2>1 DEF BeginCreate, Start, Idle, TypeOK
      <3>2. status' = "pending" /\ job' = "none" /\ \A v \in Requests : req[v].op # "create"
        BY <2>1 DEF BeginCreate, JobInv
      <3>3. QED BY <3>1, <3>2 DEF JobInv
    <2>2. CASE BeginPay(w) \/ BeginConfirm(w) \/ BeginRefund(w)
      <3>1. PICK op, pc : Start(w, op, pc) /\ op # "create"
        BY <2>2 DEF BeginPay, BeginConfirm, BeginRefund
      <3>2. [Idle EXCEPT !.op = op, !.pc = pc].op = op
        BY DEF Idle
      <3>3. UNCHANGED <<status, job>>
        BY <2>2 DEF BeginPay, BeginConfirm, BeginRefund, booking
      <3>4. QED BY <3>1, <3>2, <3>3, OthersCreate DEF Start
    <2>3. CASE BeginCancel(w)
      <3>1. PICK outcome : req' = [req EXCEPT ![w] = [Idle EXCEPT !.op = "cancel",
                                          !.pc = "removeJob", !.outcome = outcome]]
        BY <2>3 DEF BeginCancel
      <3>2. [Idle EXCEPT !.op = "cancel", !.pc = "removeJob", !.outcome = outcome].op = "cancel"
        BY DEF Idle
      <3>3. QED BY <2>3, <3>1, <3>2, OthersCreate DEF BeginCancel, booking
    <2>4. CASE \E p \in Payments : BeginIpn(w, p)
      <3>1. PICK p \in Payments : BeginIpn(w, p)
        BY <2>4
      <3>2. [Idle EXCEPT !.op = "ipn", !.pc = "record", !.p = p].op = "ipn"
        BY DEF Idle
      <3>3. CASE req' = req
        BY <3>1, <3>3 DEF BeginIpn, booking, JobInv
      <3>4. QED BY <3>1, <3>2, <3>3, OthersCreate DEF BeginIpn, booking
    <2>5. QED BY <1>2, <2>1, <2>2, <2>3, <2>4 DEF Arrive
  <1>3. ASSUME NEW w \in Requests, Step(w) PROVE JobInv'
    <2>1. status' = "absent" => status = "absent"
      BY <1>3 DEF Step, ScheduleTtl, InsertPayment, RecordPayment, ConfirmPaid, RemoveJob,
                  WriteConfirm, WriteCancel, WriteRefund, MarkPaymentRefunded, booking
    <2>2. CASE ScheduleTtl(w)
      <3>1. req[w].op = "create" /\ \A v \in Requests \ {w} : req'[v] = req[v]
        BY <2>2 DEF ScheduleTtl, At, Finish, TypeOK
      <3>2. req'[w] = Idle
        BY <2>2 DEF ScheduleTtl, Finish, TypeOK
      <3>3. status # "absent" /\ \A v \in Requests \ {w} : req[v].op # "create"
        BY <3>1 DEF JobInv
      <3>4. QED BY <1>1, <2>1, <3>1, <3>2, <3>3 DEF JobInv
    <2>3. CASE ~ScheduleTtl(w)
      <3>1. job' \in {job, "none"}
        BY <1>3, <2>3 DEF Step, InsertPayment, RecordPayment, ConfirmPaid, RemoveJob,
                  WriteConfirm, WriteCancel, WriteRefund, MarkPaymentRefunded
      <3>2. Finish(w) \/ \E pc : Goto(w, pc)
        BY <1>3, <2>3 DEF Step, InsertPayment, RecordPayment, ConfirmPaid, RemoveJob,
                  WriteConfirm, WriteCancel, WriteRefund, MarkPaymentRefunded
      <3>3. CASE Finish(w)
        BY <1>1, <2>1, <3>1, <3>3, OthersCreate DEF Finish
      <3>4. ASSUME NEW pc, Goto(w, pc) PROVE JobInv'
        <4>1. PICK r : r = [req[w] EXCEPT !.pc = pc]
          OBVIOUS
        <4>2. req' = [req EXCEPT ![w] = r] /\ r.op = req[w].op
          BY <3>4, <4>1 DEF Goto, TypeOK, Request
        <4>3. QED BY <2>1, <3>1, <4>2, OthersCreate
      <3>5. QED BY <3>2, <3>3, <3>4
    <2>4. QED BY <2>2, <2>3
  <1>4. ASSUME Outside PROVE JobInv'
    <2>1. CASE \E w \in Requests : Fail(w)
      BY <1>1, <2>1, OthersCreate DEF Fail, Finish, booking
    <2>2. CASE \E p \in Payments : CustomerAnswers(p)
      BY <2>2 DEF CustomerAnswers, booking, JobInv
    <2>3. CASE ExpiryStarts \/ ExpiryWrites \/ ExpiryFails
      BY <2>3 DEF ExpiryStarts, ExpiryWrites, ExpiryFails, booking, JobInv
    <2>4. QED BY <1>4, <2>1, <2>2, <2>3 DEF Outside
  <1>5. UNCHANGED vars => JobInv'
    BY DEF vars, booking, JobInv
  <1>6. QED BY <1>2, <1>3, <1>4, <1>5, NextIsKnown

LEMMA ScheduledOnce == Spec => []JobInv
  <1>1. Init => JobInv
    BY DEF Init, JobInv, Idle
  <1>2. QED BY <1>1, JobKept, DepositTyped, PTL DEF Spec

-----------------------------------------------------------------------------
(* A payment that is received does not leave the booking pending *)

Confirming(w) == req[w].op = "ipn" /\ req[w].pc \in {"removeJob", "write"}

(* Payments are opened for a booking that exists. *)
PaidInv ==
  /\ PaidIsNotLeftPending
  /\ status = "absent" => /\ \A p \in Payments : payment[p] = "none"
                          /\ \A w \in Requests : req[w].op \notin {"pay", "ipn"}

(* One request changes; the webhooks of the others go on as before. *)
LEMMA OthersConfirm ==
  ASSUME TypeOK, PaidInv, NEW w \in Requests, NEW r, req' = [req EXCEPT ![w] = r],
         failures' = failures, status' = status,
         \A p \in Payments : payment'[p] = "success" => payment[p] = "success",
         job = "active" => job' = "active",
         Confirming(w) => (r.op = "ipn" /\ r.pc \in {"removeJob", "write"}) \/ job' = "active",
         status = "absent" => r.op \notin {"pay", "ipn"} /\ payment' = payment
  PROVE  PaidInv'
  <1>1. req'[w] = r /\ \A v \in Requests \ {w} : req'[v] = req[v]
    BY DEF TypeOK
  <1>2. status' = "absent" => /\ \A p \in Payments : payment'[p] = "none"
                              /\ \A v \in Requests : req'[v].op \notin {"pay", "ipn"}
    BY <1>1 DEF PaidInv
  <1>3. PaidIsNotLeftPending'
    <2> SUFFICES ASSUME \E p \in Payments : payment'[p] = "success", status' = "pending"
                 PROVE  \/ \E v \in Requests : req'[v].op = "ipn" /\ req'[v].pc \in {"removeJob", "write"}
                        \/ job' = "active"
                        \/ failures' > 0
      BY DEF PaidIsNotLeftPending
    <2>1. (\E v \in Requests : Confirming(v)) \/ job = "active" \/ failures > 0
      BY DEF PaidInv, PaidIsNotLeftPending, Confirming
    <2>2. ASSUME NEW v \in Requests, Confirming(v)
          PROVE  (req'[v].op = "ipn" /\ req'[v].pc \in {"removeJob", "write"}) \/ job' = "active"
      BY <1>1, <2>2 DEF Confirming
    <2>3. QED BY <2>1, <2>2
  <1>4. QED BY <1>2, <1>3 DEF PaidInv

(* A step that leaves the booking neither absent nor pending. *)
LEMMA Settled ==
  ASSUME status' \notin {"absent", "pending"}
  PROVE  PaidInv'
  BY DEF PaidInv, PaidIsNotLeftPending

LEMMA PaidKept ==
  ASSUME TypeOK, JobInv, PaidInv, [Next]_vars
  PROVE  PaidInv'
  <1>1. ASSUME NEW w \in Requests, Arrive(w) PROVE PaidInv'
    <2>1. CASE BeginCreate(w)
      <3>1. \A p \in Payments : payment'[p] # "success"
        BY <2>1 DEF BeginCreate, PaidInv
      <3>2. status' = "pending"
        BY <2>1 DEF BeginCreate
      <3>3. QED BY <3>1, <3>2 DEF PaidInv, PaidIsNotLeftPending
    <2>2. ASSUME req[w] = Idle, NEW r, req' = [req EXCEPT ![w] = r],
                 status = "absent" => r.op \notin {"pay", "ipn"},
                 UNCHANGED <<status, payment, job, failures>>
          PROVE  PaidInv'
      <3>1. ~Confirming(w)
        BY <2>2 DEF Confirming, Idle
      <3>2. QED BY <2>2, <3>1, OthersConfirm
    <2>3. CASE BeginPay(w) \/ BeginConfirm(w) \/ BeginRefund(w)
      <3>1. PICK op, pc : Start(w, op, pc) /\ (op = "pay" => status = "pending") /\ op # "ipn"
        BY <2>3 DEF BeginPay, BeginConfirm, BeginRefund
      <3>2. [Idle EXCEPT !.op = op, !.pc = pc].op = op
        BY DEF Idle
      <3>3. req[w] = Idle /\ UNCHANGED <<status, payment, job, failures>>
        BY <2>3 DEF BeginPay, BeginConfirm, BeginRefund, booking, history
      <3>4. QED BY <2>2, <3>1, <3>2, <3>3 DEF Start
    <2>4. CASE BeginCancel(w)
      <3>1. PICK outcome : req' = [req EXCEPT ![w] = [Idle EXCEPT !.op = "cancel",
                                          !.pc = "removeJob", !.outcome = outcome]]
        BY <2>4 DEF BeginCancel
      <3>2. [Idle EXCEPT !.op = "cancel", !.pc = "removeJob", !.outcome = outcome].op = "cancel"
        BY DEF Idle
      <3>3. QED BY <2>2, <2>4, <3>1, <3>2 DEF BeginCancel, booking, history
    <2>5. CASE \E p \in Payments : BeginIpn(w, p)
      <3>1. PICK p \in Payments : BeginIpn(w, p)
        BY <2>5
      <3>2. CASE req' = req
        BY <3>1, <3>2 DEF BeginIpn, booking, history, PaidInv, PaidIsNotLeftPending
      <3>3. CASE payment[p] = "pending"
        <4>1. status # "absent"
          BY <3>3 DEF PaidInv
        <4>2. QED BY <2>2, <3>1, <3>2, <4>1 DEF BeginIpn, booking, history
      <3>4. QED BY <3>1, <3>2, <3>3 DEF BeginIpn
    <2>6. QED BY <1>1, <2>1, <2>3, <2>4, <2>5 DEF Arrive
  <1>2. ASSUME NEW w \in Requests, Step(w) PROVE PaidInv'
    <2>1. ASSUME Finish(w), ~Confirming(w) \/ job = "active", UNCHANGED <<status, job, failures>>,
                 \A p \in Payments : payment'[p] = "success" => payment[p] = "success",
                 status = "absent" => payment' = payment
          PROVE  PaidInv'
      <3>1. Idle.op = "idle"
        BY DEF Idle
      <3>2. QED BY <2>1, <3>1, OthersConfirm DEF Finish
    <2>2. CASE ScheduleTtl(w)
      <3>1. ~Confirming(w) /\ job # "active"
        BY <2>2 DEF ScheduleTtl, At, Confirming, JobInv
      <3>2. Idle.op = "idle"
        BY DEF Idle
      <3>3. QED BY <2>2, <3>1, <3>2, OthersConfirm DEF ScheduleTtl, Finish, booking, history
    <2>3. CASE InsertPayment(w)
      <3>1. ~Confirming(w) /\ status # "absent"
        BY <2>3 DEF InsertPayment, At, Confirming, PaidInv
      <3>2. \A p \in Payments : payment'[p] = "success" => payment[p] = "success"
        BY <2>3 DEF InsertPayment, TypeOK
      <3>3. QED BY <2>1, <2>3, <3>1, <3>2 DEF InsertPayment, booking, history
    <2>4. CASE RecordPayment(w)
      <3>1. At(w, "ipn", "record") /\ ~Confirming(w) /\ status # "absent"
        BY <2>4 DEF RecordPayment, At, Confirming, PaidInv
      <3>2. CASE Goto(w, "removeJob")
        <4>1. req'[w].op = "ipn" /\ req'[w].pc = "removeJob"
          BY <3>1, <3>2 DEF Goto, At, TypeOK, Request
        <4>2. status' = status
          BY <2>4 DEF RecordPayment, booking
        <4>3. QED BY <3>1, <4>1, <4>2 DEF PaidInv, PaidIsNotLeftPending
      <3>3. CASE Finish(w) /\ payment' = [payment EXCEPT ![req[w].p] = "failed"]
        <4>1. \A p \in Payments : payment'[p] = "success" => payment[p] = "success"
          BY <3>3 DEF TypeOK
        <4>2. QED BY <2>1, <2>4, <3>1, <3>3, <4>1 DEF RecordPayment, booking, history
      <3>4. QED BY <2>4, <3>2, <3>3 DEF RecordPayment
    <2>5. CASE RemoveJob(w)
      <3>1. CASE job = "active" /\ Finish(w)
        <4>1. UNCHANGED <<status, payment, job, failures>>
          BY <2>5, <3>1 DEF RemoveJob, booking, history
        <4>2. QED BY <2>1, <3>1, <4>1
      <3>2. CASE job # "active" /\ Goto(w, "write")
        <4>1. PICK r : r = [req[w] EXCEPT !.pc = "write"]
          OBVIOUS
        <4>2. req' = [req EXCEPT ![w] = r] /\ r.op = req[w].op /\ r.pc = "write"
          BY <3>2, <4>1 DEF Goto, TypeOK, Request
        <4>3. UNCHANGED <<status, payment, failures>>
          BY <2>5 DEF RemoveJob, booking, history
        <4>4. Confirming(w) => r.op = "ipn"
          BY <4>2 DEF Confirming
        <4>5. status = "absent" => r.op \notin {"pay", "ipn"}
          BY <4>2 DEF PaidInv
        <4>6. QED BY <3>2, <4>2, <4>3, <4>4, <4>5, OthersConfirm
      <3>3. QED BY <2>5, <3>1, <3>2 DEF RemoveJob
    <2>6. CASE ConfirmPaid(w)
      <3>1. At(w, "ipn", "write") /\ status # "absent"
        BY <2>6 DEF ConfirmPaid, At, PaidInv
      <3>2. status' \in Statuses \ {"absent", "pending"}
        BY <2>6, <3>1 DEF ConfirmPaid, TypeOK, Statuses
      <3>3. QED BY <3>2, Settled
    <2>7. CASE WriteConfirm(w) \/ WriteCancel(w)
      BY <2>7, Settled DEF WriteConfirm, WriteCancel
    <2>8. CASE WriteRefund(w)
      <3>1. PICK r : r = [req[w] EXCEPT !.pc = "mark"]
        OBVIOUS
      <3>2. req' = [req EXCEPT ![w] = r] /\ r.op = "refund" /\ ~Confirming(w)
        BY <2>8, <3>1 DEF WriteRefund, Goto, At, TypeOK, Request, Confirming
      <3>3. QED BY <2>8, <3>2, OthersConfirm DEF WriteRefund, history
    <2>9. CASE MarkPaymentRefunded(w)
      <3>1. ~Confirming(w)
        BY <2>9 DEF MarkPaymentRefunded, At, Confirming
      <3>2. /\ \A p \in Payments : payment'[p] = "success" => payment[p] = "success"
            /\ status = "absent" => payment' = payment
        BY <2>9 DEF MarkPaymentRefunded, TypeOK, PaidInv
      <3>3. QED BY <2>1, <2>9, <3>1, <3>2 DEF MarkPaymentRefunded, booking, history
    <2>10. QED BY <1>2, <2>2, <2>3, <2>4, <2>5, <2>6, <2>7, <2>8, <2>9 DEF Step
  <1>3. ASSUME Outside PROVE PaidInv'
    <2>1. CASE \E w \in Requests : Fail(w)
      <3>1. failures' > 0 /\ UNCHANGED <<status, payment>>
        BY <2>1 DEF Fail, TypeOK, booking
      <3>2. status = "absent" => \A v \in Requests : req'[v].op \notin {"pay", "ipn"}
        BY <2>1 DEF Fail, Finish, Idle, PaidInv, TypeOK
      <3>3. QED BY <3>1, <3>2 DEF PaidInv, PaidIsNotLeftPending
    <2>2. CASE \E p \in Payments : CustomerAnswers(p)
      BY <2>2 DEF CustomerAnswers, booking, history, PaidInv, PaidIsNotLeftPending
    <2>3. CASE ExpiryStarts
      BY <2>3 DEF ExpiryStarts, booking, history, PaidInv, PaidIsNotLeftPending
    <2>4. CASE ExpiryWrites
      BY <2>4, Settled DEF ExpiryWrites
    <2>5. CASE ExpiryFails
      <3>1. failures' > 0 /\ UNCHANGED <<status, payment, req>>
        BY <2>5 DEF ExpiryFails, TypeOK, booking
      <3>2. QED BY <3>1 DEF PaidInv, PaidIsNotLeftPending
    <2>6. QED BY <1>3, <2>1, <2>2, <2>3, <2>4, <2>5 DEF Outside
  <1>4. UNCHANGED vars => PaidInv'
    BY DEF vars, booking, history, PaidInv, PaidIsNotLeftPending
  <1>5. QED BY <1>1, <1>2, <1>3, <1>4, NextIsKnown

(* Money that VNPay has reported is not left lying on a pending booking:   *)
(* its webhook goes on to confirm it, or the expiry that stopped that      *)
(* webhook cancels it, unless one of them has failed.                      *)
THEOREM PaidNeverLeftPending == Spec => []PaidIsNotLeftPending
  <1>1. Init => PaidInv
    BY DEF Init, PaidInv, PaidIsNotLeftPending, Idle
  <1>2. Spec => []PaidInv
    BY <1>1, PaidKept, ScheduledOnce, DepositTyped, PTL DEF Spec
  <1>3. QED BY <1>2, PTL DEF PaidInv

-----------------------------------------------------------------------------
(* Who confirms a cancelled booking *)

Revival ==
  status = "cancelled" /\ status' = "confirmed" =>
    \E w \in Requests : At(w, "confirm", "write") /\ req'[w] = Idle

LEMMA OnlyStaffRevives ==
  ASSUME TypeOK, [Next]_vars
  PROVE  Revival
  <1>1. ASSUME NEW w \in Requests, WriteConfirm(w) PROVE Revival
    BY <1>1 DEF WriteConfirm, Finish, TypeOK, Revival
  <1>2. ASSUME NEW w \in Requests, Step(w), ~WriteConfirm(w)
        PROVE  status = "cancelled" => status' = "cancelled"
    BY <1>2 DEF Step, ScheduleTtl, InsertPayment, RecordPayment, ConfirmPaid, RemoveJob,
                WriteCancel, WriteRefund, MarkPaymentRefunded, booking
  <1>3. ASSUME NEW w \in Requests, Arrive(w)
        PROVE  status = "cancelled" => status' = "cancelled"
    BY <1>3 DEF Arrive, BeginCreate, BeginPay, BeginConfirm, BeginCancel, BeginRefund, BeginIpn, booking
  <1>4. Outside \/ UNCHANGED vars => status' \in {status, "cancelled"}
    BY DEF Outside, Fail, CustomerAnswers, ExpiryStarts, ExpiryWrites, ExpiryFails, vars, booking
  <1>5. QED BY <1>1, <1>2, <1>3, <1>4, NextIsKnown DEF Revival

(* A webhook that comes after the cancellation never confirms the booking; *)
(* a confirmation by staff that read it before still does.                 *)
THEOREM NoWebhookRevives == Spec => WebhookNeverRevives
  <1>1. TypeOK /\ [Next]_vars => [Revival]_vars
    BY OnlyStaffRevives
  <1>2. Spec => [][Revival]_vars
    BY <1>1, DepositTyped, PTL DEF Spec
  <1>3. QED BY <1>2 DEF WebhookNeverRevives, Revival
=============================================================================
