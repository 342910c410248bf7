--------------------------- MODULE CatalogueProofs ---------------------------
(***************************************************************************)
(* What holds of the device lists and the reviews for every number of      *)
(* requests, keys, customers, images, tickets and edits.                   *)
(*                                                                         *)
(* The inductive invariant has three independent parts: loads of the cache *)
(* (Loads), changes that the lists do not know of yet (EveryChangeInvali-  *)
(* dates itself), and the row a review's transaction has written (Rows).   *)
(* Most steps concern none of them: they are shown to be one OtherStep,    *)
(* which preserves all.  The images have an invariant of their own,        *)
(* ImagesInv, at the end.                                                  *)
(***************************************************************************)
EXTENDS Catalogue, TLAPS

Fields == {"op", "pc", "key", "keys", "generation", "seen", "user", "row", "stats", "ticket",
           "device", "images", "unused"}
Reviews == [exists : BOOLEAN, id : Nat, rating : Nat, hidden : BOOLEAN, deleted : BOOLEAN,
            editDay : Nat, editCount : Nat]

IsRequest(r) == DOMAIN r = Fields /\ r.row \in Reviews /\ r.seen \in Nat /\ r.generation \in Nat

Typed ==
  /\ DOMAIN req = Requests
  /\ \A w \in Requests : IsRequest(req[w])
  /\ version \in Nat /\ fence \in Nat /\ generation \in Nat /\ today \in Nat
  /\ fence <= version
  /\ DOMAIN lists = Keys
  /\ DOMAIN inFlight = Keys
  /\ review \in [Users -> Reviews]
  /\ edits \in [Users -> Nat]

(* A load of the current generation is the one in flight for its key, and  *)
(* what it has read is no older than the last invalidation.                *)
ListRequest(r) == r.op = "list" => r.pc \in {"missed", "load", "loaded", "settle"} /\ r.key \in Keys
Current(w, r) ==
  r.op = "list" /\ r.pc \in {"load", "loaded", "settle"} =>
    /\ r.generation <= generation
    /\ r.generation = generation => inFlight[r.key] = w /\ (r.pc = "loaded" => r.seen >= fence)
Loads == \A w \in Requests : ListRequest(req[w]) /\ Current(w, req[w])

(* A review in a transaction is locked by it alone, and its row is what    *)
(* the operation makes of the committed one.                               *)
Writes(r) == r.pc \in {"aggregate", "rate"}
RowFits(op, u, row) ==
  LET old == review[u] IN
  /\ u \in Users
  /\ old.exists /\ old.deleted =>
       \/ SameReview(old, row) /\ (row.deleted \/ op = "restore")
       \/ op = "remove" /\ ~row.exists
  /\ op = "edit" =>
       /\ row.exists
       /\ \/ row.editDay = old.editDay /\ row.editCount = old.editCount + 1
          \/ row.editDay # old.editDay /\ row.editCount = 1
       /\ row.editCount <= REVIEW_EDITS_PER_DAY
  /\ op # "edit" => row.editCount = IF row.exists THEN old.editCount ELSE 0
Fits(r) == RowFits(r.op, r.user, r.row)
Prepared(r) ==
  /\ r.op \in {"create", "edit", "moderate", "restore", "hide", "show", "remove"} => r.user \in Users
  /\ r.op = "create" /\ r.pc = "write" => r.row.exists /\ ~r.row.deleted /\ r.row.editCount = 0
Counted == 
  \A u \in Users :
    /\ edits[u] = review[u].editCount
    /\ edits[u] <= REVIEW_EDITS_PER_DAY
    /\ ~review[u].exists => review[u].editCount = 0
Rows ==
  /\ \A w \in Requests : Prepared(req[w]) /\ (Writes(req[w]) => Fits(req[w]))
  /\ \A v, w \in Requests : Writes(req[v]) /\ Writes(req[w]) /\ req[v].user = req[w].user => v = w
  /\ Counted

IInv == Typed /\ Loads /\ EveryChangeInvalidates /\ Rows

(* A step of w that is no business of a load or of a review's row. *)
OtherStep(w) ==
  /\ w \in Requests
  /\ DOMAIN req' = Requests
  /\ \A v \in Requests \ {w} : req'[v] = req[v]
  /\ IsRequest(req'[w]) /\ Prepared(req'[w])
  /\ req'[w].op # "list" /\ ~Writes(req'[w])
  /\ \/ version' = version /\ req[w].pc # "changed"
     \/ version' = version + 1 /\ req'[w].pc = "changed"
  /\ UNCHANGED <<cacheVars, review, edits, today, restarted>>

LEMMA OtherStepKeepsAll ==
  ASSUME IInv, NEW w, OtherStep(w)
  PROVE  IInv'
<1>1. Typed'
  BY DEF IInv, Typed, OtherStep, cacheVars, redis
<1>2. Loads'
  BY <1>1 DEF IInv, Loads, OtherStep, ListRequest, Current, cacheVars, redis
<1>3. EveryChangeInvalidates'
  BY DEF IInv, EveryChangeInvalidates, OtherStep, cacheVars, redis, Typed
<1>4. Rows'
  BY DEF IInv, Rows, OtherStep, Prepared, Writes, Fits, RowFits, Counted, Typed
<1> QED BY <1>1, <1>2, <1>3, <1>4 DEF IInv

(* What is known of the parts of a request's record. *)
LEMMA IdleIsARequest == IsRequest(Idle) /\ Prepared(Idle) /\ Idle.op = "idle" /\ Idle.pc = "idle"
  BY DEF IsRequest, Idle, Fields, NoReview, NoStats, Reviews, Prepared

LEMMA NoReviewIsOne == NoReview \in Reviews
  BY DEF NoReview, Reviews

-----------------------------------------------------------------------------
(* Steps that are OtherSteps *)

LEMMA BeginReviewIsOther ==
  ASSUME IInv, NEW w \in Requests, NEW u \in Users, NEW op, NEW row \in Reviews,
         op # "list", op = "create" => row.exists /\ ~row.deleted /\ row.editCount = 0,
         Arrives(w), BeginReview(w, u, op, row, "write")
  PROVE  OtherStep(w)
<1> DEFINE r == [Idle EXCEPT !.op = op, !.pc = "write", !.user = u, !.row = row, !.seen = today]
<1>1. IsRequest(r) /\ r.op = op /\ r.pc = "write" /\ r.user = u /\ r.row = row
  BY DEF IInv, Typed, IsRequest, Idle, Fields
<1>2. req[w] = Idle /\ req' = [req EXCEPT ![w] = r]
  BY DEF BeginReview, Begin, Arrives
<1> QED
  BY <1>1, <1>2, IdleIsARequest
  DEF OtherStep, IInv, Typed, Prepared, Writes, BeginReview, Begin, shopVars, reviewVars, deviceVars

LEMMA ReviewRequestsBegin ==
  ASSUME IInv, NEW w \in Requests, NEW u \in Users, Arrives(w),
         \/ BeginCreate(w, u) \/ BeginEdit(w, u) \/ BeginRemove(w, u)
         \/ BeginModerate(w, u) \/ BeginRestore(w, u) \/ BeginVisibility(w, u)
  PROVE  OtherStep(w)
<1>1. CASE BeginCreate(w, u)
  <2>1. PICK s \in Ratings :
          BeginReview(w, u, "create", [NoReview EXCEPT !.exists = TRUE, !.rating = s], "write")
    BY <1>1 DEF BeginCreate
  <2>2. [NoReview EXCEPT !.exists = TRUE, !.rating = s] \in Reviews
    BY LimitsAreCounted DEF NoReview, Reviews
  <2> QED BY <2>1, <2>2, BeginReviewIsOther DEF NoReview
<1>2. CASE BeginEdit(w, u)
  <2>1. PICK s \in Ratings : BeginReview(w, u, "edit", [review[u] EXCEPT !.rating = s], "write")
    BY <1>2 DEF BeginEdit
  <2>2. [review[u] EXCEPT !.rating = s] \in Reviews
    BY LimitsAreCounted DEF Reviews, IInv, Typed
  <2> QED BY <2>1, <2>2, BeginReviewIsOther
<1> QED
  BY <1>1, <1>2, BeginReviewIsOther
  DEF BeginRemove, BeginModerate, BeginRestore, BeginVisibility, IInv, Typed

(* The other requests that are to write later. *)
LEMMA BeginIsOther ==
  ASSUME IInv, NEW w \in Requests, NEW r, IsRequest(r), Prepared(r), r.op # "list", ~Writes(r),
         Arrives(w), Begin(w, r)
  PROVE  OtherStep(w)
  BY IdleIsARequest DEF IInv, Typed, OtherStep, Arrives, Begin, shopVars, reviewVars, deviceVars

LEMMA PlainRequest ==
  ASSUME NEW op \in {"replace", "add", "drop", "progress", "resolve", "status", "form", "ticket"},
         NEW r, DOMAIN r = Fields, r.op = op, ~Writes(r),
         r.row = NoReview, r.seen = 0, r.generation = 0
  PROVE  IsRequest(r) /\ Prepared(r) /\ r.op # "list"
  BY NoReviewIsOne DEF IsRequest, Prepared

LEMMA ChangeIsOther ==
  ASSUME IInv, NEW w \in Requests, NEW op \in {"status", "form", "ticket"}, Change(w, op),
         UNCHANGED reviewVars
  PROVE  OtherStep(w)
<1> DEFINE r == [Idle EXCEPT !.op = op, !.pc = "changed"]
<1>1. DOMAIN r = Fields /\ r.op = op /\ r.pc = "changed" /\ r.row = NoReview /\ r.seen = 0
      /\ r.generation = 0
  BY DEF Idle, Fields
<1>2. req' = [req EXCEPT ![w] = r] /\ version' = version + 1 /\ UNCHANGED <<cacheVars, restarted>>
  BY DEF Change
<1> HIDE DEF r
<1>3. IsRequest(r) /\ Prepared(r) /\ r.op # "list" /\ ~Writes(r)
  BY <1>1, PlainRequest DEF Writes
<1> QED BY <1>1, <1>2, <1>3 DEF IInv, Typed, OtherStep, reviewVars

LEMMA ShopRequestsBegin ==
  ASSUME IInv, NEW w \in Requests, Arrives(w),
         \/ ChangeStatus(w)
         \/ \E d \in Devices : \/ CreateDevice(w, d) \/ PatchDevice(w, d)
                              \/ BeginReplace(w, d) \/ BeginAdd(w, d) \/ BeginDrop(w, d)
         \/ \E t \in Tickets : OpenTicket(w, t) \/ BeginTicket(w, t)
  PROVE  OtherStep(w)
<1>1. CASE ChangeStatus(w)
  BY <1>1, ChangeIsOther DEF ChangeStatus, shopVars
<1>2. ASSUME NEW r, DOMAIN r = Fields, r.op \in {"replace", "add", "drop"}, r.pc = "write",
             r.row = NoReview, r.seen = 0, r.generation = 0, Begin(w, r)
      PROVE  OtherStep(w)
  <2>1. IsRequest(r) /\ Prepared(r) /\ r.op # "list" /\ ~Writes(r)
    BY <1>2, PlainRequest DEF Writes
  <2> QED BY <1>2, <2>1, BeginIsOther
<1>3. ASSUME NEW d \in Devices, CreateDevice(w, d) \/ PatchDevice(w, d) PROVE OtherStep(w)
  BY <1>3, ChangeIsOther DEF CreateDevice, PatchDevice
<1>4. ASSUME NEW d \in Devices, BeginReplace(w, d) \/ BeginAdd(w, d) \/ BeginDrop(w, d)
      PROVE  OtherStep(w)
  <2>1. CASE BeginReplace(w, d)
    <3>1. PICK kept, unused :
            Begin(w, [Idle EXCEPT !.op = "replace", !.pc = "write", !.device = d, !.images = kept,
                                  !.unused = unused])
      BY <2>1, Zenon DEF BeginReplace
    <3> DEFINE r == [Idle EXCEPT !.op = "replace", !.pc = "write", !.device = d, !.images = kept,
                                 !.unused = unused]
    <3>2. DOMAIN r = Fields /\ r.op = "replace" /\ r.pc = "write" /\ r.row = NoReview
          /\ r.seen = 0 /\ r.generation = 0
      BY DEF Idle, Fields
    <3>3. Begin(w, r)
      BY <3>1
    <3> HIDE DEF r
    <3> QED BY <3>2, <3>3, <1>2
  <2>2. CASE BeginAdd(w, d)
    <3>1. PICK images :
            Begin(w, [Idle EXCEPT !.op = "add", !.pc = "write", !.device = d, !.images = images])
      BY <2>2, Zenon DEF BeginAdd
    <3> DEFINE r == [Idle EXCEPT !.op = "add", !.pc = "write", !.device = d, !.images = images]
    <3>2. DOMAIN r = Fields /\ r.op = "add" /\ r.pc = "write" /\ r.row = NoReview
          /\ r.seen = 0 /\ r.generation = 0
      BY DEF Idle, Fields
    <3>3. Begin(w, r)
      BY <3>1
    <3> HIDE DEF r
    <3> QED BY <3>2, <3>3, <1>2
  <2>3. CASE BeginDrop(w, d)
    <3> DEFINE r == [Idle EXCEPT !.op = "drop", !.pc = "write", !.device = d, !.unused = shown[d]]
    <3>2. DOMAIN r = Fields /\ r.op = "drop" /\ r.pc = "write" /\ r.row = NoReview
          /\ r.seen = 0 /\ r.generation = 0
      BY DEF Idle, Fields
    <3>3. Begin(w, r)
      BY <2>3 DEF BeginDrop
    <3> HIDE DEF r
    <3> QED BY <3>2, <3>3, <1>2
  <2> QED BY <1>4, <2>1, <2>2, <2>3
<1>5. CASE \E t \in Tickets : OpenTicket(w, t)
  BY <1>5, ChangeIsOther DEF OpenTicket, TicketStep
<1>6. CASE \E t \in Tickets : BeginTicket(w, t)
  <2>1. PICK t \in Tickets, op \in {"progress", "resolve"} :
          Begin(w, [Idle EXCEPT !.op = op, !.pc = "write", !.ticket = t])
    BY <1>6, Zenon DEF BeginTicket
  <2> DEFINE r == [Idle EXCEPT !.op = op, !.pc = "write", !.ticket = t]
  <2>2. DOMAIN r = Fields /\ r.op = op /\ ~Writes(r) /\ r.row = NoReview /\ r.seen = 0
        /\ r.generation = 0
    BY DEF Idle, Fields, Writes
  <2>3. IsRequest(r) /\ Prepared(r) /\ r.op # "list" /\ ~Writes(r)
    <3> HIDE DEF r
    <3> QED BY <2>2, PlainRequest
  <2> QED BY <2>1, <2>3, BeginIsOther
<1> QED BY <1>1, <1>2, <1>3, <1>4, <1>5, <1>6

(* The record of a request after it has moved to pc, or has finished. *)
Same(r, s) ==
  /\ r.op = s.op /\ r.user = s.user /\ r.row = s.row /\ r.seen = s.seen
  /\ r.generation = s.generation /\ r.key = s.key
OthersStay(w) == DOMAIN req' = Requests /\ \A v \in Requests \ {w} : req'[v] = req[v]

LEMMA Moves ==
  ASSUME Typed, NEW w \in Requests, NEW pc, Goto(w, pc)
  PROVE  OthersStay(w) /\ IsRequest(req'[w]) /\ req'[w].pc = pc /\ Same(req'[w], req[w])
  BY DEF Typed, Goto, OthersStay, IsRequest, Fields, Same

LEMMA Finishes ==
  ASSUME Typed, NEW w \in Requests, Finish(w)
  PROVE  OthersStay(w) /\ req'[w] = Idle /\ IsRequest(req'[w]) /\ req'[w].pc = "idle" /\ req'[w].op = "idle"
  BY IdleIsARequest DEF Typed, Finish, OthersStay

LEMMA Cleans ==
  ASSUME Typed, NEW w \in Requests, NEW unused, Clean(w, unused)
  PROVE  /\ OthersStay(w) /\ IsRequest(req'[w])
         /\ req'[w] = Idle \/ (req'[w].pc = "clean" /\ Same(req'[w], req[w]))
<1>1. CASE unused = {}
  BY <1>1, Finishes DEF Clean
<1>2. CASE unused # {}
  BY <1>2 DEF Typed, Clean, OthersStay, IsRequest, Fields, Same
<1> QED BY <1>1, <1>2

(* A step that ends there, when nothing else that matters has changed. *)
LEMMA GoesOn ==
  ASSUME IInv, NEW w \in Requests, OthersStay(w), IsRequest(req'[w]), req[w].op # "list",
         \/ req'[w] = Idle
         \/ Same(req'[w], req[w]) /\ req'[w].pc \notin {"write", "aggregate", "rate"},
         \/ version' = version /\ req[w].pc # "changed"
         \/ version' = version + 1 /\ req'[w].pc = "changed",
         UNCHANGED <<cacheVars, review, edits, today, restarted>>
  PROVE  OtherStep(w)
  BY IdleIsARequest DEF OtherStep, OthersStay, IInv, Rows, Prepared, Writes, Same

(* The steps of such a request. *)
LEMMA ShopRequestsGoOn ==
  ASSUME IInv, NEW w \in Requests,
         \/ ReplaceImages(w) \/ AddImages(w) \/ RemoveDevice(w)
         \/ CountUses(w) \/ DestroyImage(w) \/ ProgressTicket(w) \/ ResolveTicket(w)
  PROVE  OtherStep(w)
<1>0. req[w].op # "list" /\ Typed
  BY DEF IInv, Loads, ListRequest, ReplaceImages, AddImages, RemoveDevice, CountUses, DestroyImage,
         ProgressTicket, ResolveTicket, At
<1>1. CASE ReplaceImages(w) \/ AddImages(w) \/ RemoveDevice(w)
  <2>1. \/ Finish(w) /\ version' = version
        \/ Goto(w, "changed") /\ version' = version + 1
    BY <1>1 DEF ReplaceImages, AddImages, RemoveDevice, SaveImages
  <2>2. UNCHANGED <<cacheVars, review, edits, today, restarted>> /\ req[w].pc = "write"
    BY <1>1 DEF ReplaceImages, AddImages, RemoveDevice, SaveImages, At, reviewVars, history
  <2> QED BY <1>0, <2>1, <2>2, Finishes, Moves, GoesOn
<1>2. CASE CountUses(w)
  <2>1. UNCHANGED <<version, cacheVars, review, edits, today, restarted>> /\ req[w].pc = "clean"
    BY <1>2 DEF CountUses, shopVars, reviewVars, deviceVars, history
  <2>2. PICK i \in req[w].unused :
          \/ Clean(w, req[w].unused \ {i})
          \/ req' = [req EXCEPT ![w].pc = "destroy", ![w].images = {i}, ![w].unused = @ \ {i}]
    BY <1>2 DEF CountUses
  <2>3. CASE Clean(w, req[w].unused \ {i})
    BY <1>0, <2>1, <2>3, Cleans, GoesOn
  <2>4. CASE req' = [req EXCEPT ![w].pc = "destroy", ![w].images = {i}, ![w].unused = @ \ {i}]
    <3>1. OthersStay(w) /\ IsRequest(req'[w]) /\ req'[w].pc = "destroy" /\ Same(req'[w], req[w])
      BY <1>0, <2>4 DEF Typed, OthersStay, IsRequest, Fields, Same
    <3> QED BY <1>0, <2>1, <3>1, GoesOn
  <2> QED BY <2>2, <2>3, <2>4
<1>3. CASE DestroyImage(w)
  <2>1. /\ UNCHANGED <<version, cacheVars, review, edits, today, restarted>> /\ req[w].pc = "destroy"
        /\ Clean(w, req[w].unused)
    BY <1>3 DEF DestroyImage, reviewVars, history
  <2> QED BY <1>0, <2>1, Cleans, GoesOn
<1>4. CASE ProgressTicket(w)
  <2>1. UNCHANGED <<version, cacheVars, review, edits, today, restarted>> /\ req[w].pc = "write" /\ Finish(w)
    BY <1>4 DEF ProgressTicket, TicketStep, At, reviewVars, history
  <2> QED BY <1>0, <2>1, Finishes, GoesOn
<1>5. CASE ResolveTicket(w)
  <2>1. UNCHANGED <<cacheVars, review, edits, today, restarted>> /\ version' = version + 1 /\ Goto(w, "changed")
    BY <1>5 DEF ResolveTicket, TicketStep, At, reviewVars, history
  <2> QED BY <1>0, <2>1, Moves, GoesOn
<1> QED BY <1>1, <1>2, <1>3, <1>4, <1>5

LEMMA FailureIsOther ==
  ASSUME IInv, NEW w \in Requests, Fail(w)
  PROVE  OtherStep(w)
<1>1. req[w].op # "list" /\ req[w].pc # "changed" /\ Typed /\ Finish(w)
  BY DEF IInv, Loads, ListRequest, Fail
<1> QED BY <1>1, Finishes, GoesOn DEF Fail, shopVars, reviewVars, deviceVars, history

-----------------------------------------------------------------------------
(* The transaction of a review *)

LEMMA TransactionKeepsAll ==
  ASSUME IInv, NEW w \in Requests, OthersStay(w), IsRequest(req'[w]), Prepared(req'[w]),
         req[w].op # "list", req'[w].op # "list", req[w].pc # "changed",
         UNCHANGED <<version, cacheVars, review, edits, today, restarted>>,
         Writes(req'[w]) =>
           /\ Fits(req'[w])
           /\ \A v \in Requests \ {w} : ~(Writes(req[v]) /\ req[v].user = req'[w].user)
  PROVE  IInv'
<1>1. Typed'
  BY DEF IInv, Typed, OthersStay, cacheVars, redis
<1>2. Loads'
  BY <1>1 DEF IInv, Loads, OthersStay, ListRequest, Current, cacheVars, redis
<1>3. EveryChangeInvalidates'
  BY DEF IInv, EveryChangeInvalidates, OthersStay, cacheVars, redis, Typed
<1>4. Rows'
  BY DEF IInv, Rows, OthersStay, Prepared, Writes, Fits, RowFits, Counted, Typed
<1> QED BY <1>1, <1>2, <1>3, <1>4 DEF IInv

(* The row is written, its review being locked by nobody else. *)
LEMMA WrittenKeepsAll ==
  ASSUME IInv, NEW w \in Requests, NEW row \in Reviews, Written(w, row), ReviewStep,
         req[w].pc \in {"write", "newDay"}, req[w].op # "list", Unlocked(req[w].user),
         RowFits(req[w].op, req[w].user, row)
  PROVE  IInv'
<1>1. /\ OthersStay(w) /\ IsRequest(req'[w]) /\ req'[w].pc = "aggregate" /\ req'[w].row = row
      /\ req'[w].op = req[w].op /\ req'[w].user = req[w].user
  BY DEF IInv, Typed, Written, OthersStay, IsRequest, Fields
<1>2. Prepared(req'[w]) /\ Fits(req'[w])
  BY <1>1 DEF IInv, Rows, Prepared, Fits
<1>3. \A v \in Requests \ {w} : ~(Writes(req[v]) /\ req[v].user = req'[w].user)
  BY <1>1 DEF Unlocked, InTransaction, Writes
<1>4. UNCHANGED <<version, cacheVars, review, edits, today, restarted>>
  BY DEF ReviewStep, shopVars, reviewVars, deviceVars, history
<1> QED BY <1>1, <1>2, <1>3, <1>4, TransactionKeepsAll

(* It is refused, or tried again with the other condition. *)
LEMMA RefusedKeepsAll ==
  ASSUME IInv, NEW w \in Requests, ReviewStep, req[w].pc \in {"write", "newDay"}, req[w].op # "list",
         Finish(w) \/ Goto(w, "newDay")
  PROVE  IInv'
<1>1. Typed /\ UNCHANGED <<version, cacheVars, review, edits, today, restarted>>
  BY DEF IInv, ReviewStep, shopVars, reviewVars, deviceVars, history
<1>2. OtherStep(w)
  BY <1>1, Finishes, Moves, GoesOn
<1> QED BY <1>2, OtherStepKeepsAll

LEMMA ReviewOf ==
  ASSUME IInv, NEW w \in Requests,
         req[w].op \in {"create", "edit", "moderate", "restore", "hide", "show", "remove"}
  PROVE  /\ req[w].user \in Users /\ review[req[w].user] \in Reviews /\ req[w].row \in Reviews
         /\ req[w].seen \in Nat
  BY DEF IInv, Rows, Prepared, Typed, IsRequest

LEMMA InsertReviewKeepsAll ==
  ASSUME IInv, NEW w \in Requests, InsertReview(w)
  PROVE  IInv'
<1> DEFINE u == req[w].user
           row == [req[w].row EXCEPT !.id = review[u].id + 1]
<1>1. req[w].op = "create" /\ req[w].pc = "write" /\ Unlocked(u) /\ ReviewStep
  BY DEF InsertReview, At
<1>2. CASE review[u].exists \/ ~DeviceExists
  BY <1>1, <1>2, RefusedKeepsAll DEF InsertReview
<1>3. CASE ~review[u].exists /\ DeviceExists
  <2>1. row \in Reviews /\ Written(w, row)
    BY <1>1, <1>3, ReviewOf DEF InsertReview, Reviews
  <2>2. req[w].row.exists /\ ~req[w].row.deleted /\ req[w].row.editCount = 0
    BY <1>1 DEF IInv, Rows, Prepared
  <2>3. row.exists = req[w].row.exists /\ row.deleted = req[w].row.deleted
        /\ row.editCount = req[w].row.editCount
    BY <1>1, ReviewOf DEF Reviews
  <2>4. RowFits(req[w].op, u, row)
    BY <1>1, <1>3, <2>2, <2>3, ReviewOf DEF RowFits, IInv, Rows, Counted
  <2> HIDE DEF row
  <2> QED BY <1>1, <2>1, <2>4, WrittenKeepsAll
<1> QED BY <1>2, <1>3

LEMMA EditSameDayKeepsAll ==
  ASSUME IInv, NEW w \in Requests, EditSameDay(w)
  PROVE  IInv'
<1> DEFINE u == req[w].user
           old == review[u]
           row == [old EXCEPT !.rating = req[w].row.rating, !.editCount = @ + 1]
<1>1. req[w].op = "edit" /\ req[w].pc = "write" /\ ReviewStep
  BY DEF EditSameDay, At
<1>2. CASE ~SameDay(w, old)
  BY <1>1, <1>2, RefusedKeepsAll DEF EditSameDay
<1>3. CASE SameDay(w, old)
  <2>1. Unlocked(u) /\ Written(w, row)
    BY <1>3 DEF EditSameDay
  <2>2. old \in Reviews /\ req[w].row \in Reviews /\ u \in Users
    BY <1>1, ReviewOf
  <2>3. row \in Reviews /\ row.deleted = old.deleted /\ row.exists = old.exists
        /\ row.editDay = old.editDay /\ row.editCount = old.editCount + 1
    <3>1. req[w].row.rating \in Nat
      BY <2>2 DEF Reviews
    <3>2. PICK r : r = old
      OBVIOUS
    <3>3. r = [exists |-> r.exists, id |-> r.id, rating |-> r.rating, hidden |-> r.hidden,
               deleted |-> r.deleted, editDay |-> r.editDay, editCount |-> r.editCount]
      BY <2>2, <3>2 DEF Reviews
    <3>4. row = [r EXCEPT !.rating = req[w].row.rating, !.editCount = r.editCount + 1]
      BY <3>2
    <3>5. row = [exists |-> r.exists, id |-> r.id, rating |-> req[w].row.rating,
                 hidden |-> r.hidden, deleted |-> r.deleted,
                 editDay |-> r.editDay, editCount |-> r.editCount + 1]
      <4> HIDE DEF row
      <4> QED BY <3>3, <3>4
    <3>6. /\ r.exists \in BOOLEAN /\ r.hidden \in BOOLEAN /\ r.deleted \in BOOLEAN
          /\ r.id \in Nat /\ r.editDay \in Nat /\ r.editCount \in Nat
      BY <2>2, <3>2 DEF Reviews
    <3> HIDE DEF row
    <3> QED BY <3>1, <3>2, <3>5, <3>6 DEF Reviews
  <2>4. old.exists /\ ~old.deleted /\ old.editCount < REVIEW_EDITS_PER_DAY
    BY <1>3 DEF SameDay, Editable
  <2>5. RowFits(req[w].op, u, row)
    <3> HIDE DEF row
    <3> QED BY <1>1, <2>2, <2>3, <2>4, LimitsAreCounted DEF RowFits, Reviews
  <2> HIDE DEF row
  <2> QED BY <1>1, <2>1, <2>3, <2>5, WrittenKeepsAll
<1> QED BY <1>2, <1>3

LEMMA EditNewDayKeepsAll ==
  ASSUME IInv, NEW w \in Requests, EditNewDay(w)
  PROVE  IInv'
<1> DEFINE u == req[w].user
           old == review[u]
           row == [old EXCEPT !.rating = req[w].row.rating, !.editDay = req[w].seen, !.editCount = 1]
<1>1. req[w].op = "edit" /\ req[w].pc = "newDay" /\ ReviewStep
  BY DEF EditNewDay, At
<1>2. CASE ~NewDay(w, old)
  BY <1>1, <1>2, RefusedKeepsAll DEF EditNewDay
<1>3. CASE NewDay(w, old)
  <2>1. Unlocked(u) /\ Written(w, row)
    BY <1>3 DEF EditNewDay
  <2>2. old \in Reviews /\ req[w].row \in Reviews /\ u \in Users /\ req[w].seen \in Nat
    BY <1>1, ReviewOf
  <2>3. row \in Reviews /\ row.deleted = old.deleted /\ row.exists = old.exists
        /\ row.editDay = req[w].seen /\ row.editCount = 1
    BY <2>2 DEF Reviews
  <2>4. old.exists /\ ~old.deleted /\ old.editDay # req[w].seen
    BY <1>3 DEF NewDay, Editable
  <2>5. RowFits(req[w].op, u, row)
    <3> HIDE DEF row
    <3> QED BY <1>1, <2>2, <2>3, <2>4, LimitsAreCounted DEF RowFits, Reviews
  <2> HIDE DEF row
  <2> QED BY <1>1, <2>1, <2>3, <2>5, WrittenKeepsAll
<1> QED BY <1>2, <1>3

(* The statements that name a review by its id: what they make of it fits.  *)
LEMMA WriteByIdKeepsAll ==
  ASSUME IInv, NEW w \in Requests, NEW op \in {"moderate", "restore", "hide", "show", "remove"},
         NEW row, WriteById(w, op, row),
         LET old == review[req[w].user] IN
           /\ row \in Reviews
           /\ row.editCount = IF row.exists THEN old.editCount ELSE 0
           /\ \/ SameReview(old, row) /\ (old.deleted => row.deleted \/ op = "restore")
              \/ op = "remove" /\ ~row.exists
              \/ ~old.exists
  PROVE  IInv'
<1>1. /\ req[w].op = op /\ req[w].pc = "write" /\ Unlocked(req[w].user) /\ ReviewStep
      /\ Written(w, row) \/ Finish(w)
  BY DEF WriteById, At
<1>2. CASE Finish(w)
  BY <1>1, <1>2, RefusedKeepsAll
<1>3. CASE Written(w, row)
  <2>1. RowFits(req[w].op, req[w].user, row)
    BY <1>1, ReviewOf DEF RowFits
  <2> QED BY <1>1, <1>3, <2>1, WrittenKeepsAll
<1> QED BY <1>1, <1>2, <1>3

LEMMA WritersByIdKeepAll ==
  ASSUME IInv, NEW w \in Requests,
         RemoveReview(w) \/ ModerateReview(w) \/ RestoreReview(w) \/ SetVisibility(w)
  PROVE  IInv'
<1> DEFINE old == review[req[w].user]
<1>0. old \in Reviews /\ (~old.exists => old.editCount = 0)
  <2>1. req[w].op \in {"moderate", "restore", "hide", "show", "remove"}
    BY DEF RemoveReview, ModerateReview, RestoreReview, SetVisibility, WriteById, At
  <2> QED BY <2>1, ReviewOf DEF IInv, Rows, Counted
<1>1. CASE RemoveReview(w)
  <2> DEFINE row == [NoReview EXCEPT !.id = old.id]
  <2>1. row \in Reviews /\ ~row.exists /\ row.editCount = 0
    BY <1>0 DEF NoReview, Reviews
  <2>2. WriteById(w, "remove", row)
    BY <1>1 DEF RemoveReview
  <2> HIDE DEF row
  <2> QED BY <2>1, <2>2, WriteByIdKeepsAll
<1>2. ASSUME NEW op \in {"moderate", "restore", "hide", "show"}, NEW row \in Reviews,
             WriteById(w, op, row), row.exists = old.exists, row.id = old.id,
             row.rating = old.rating, row.editDay = old.editDay, row.editCount = old.editCount,
             old.deleted => row.deleted \/ op = "restore"
      PROVE  IInv'
  BY <1>0, <1>2, WriteByIdKeepsAll DEF SameReview
<1>3. CASE ModerateReview(w)
  <2> DEFINE row == [old EXCEPT !.deleted = TRUE]
  <2>1. /\ row \in Reviews /\ row.exists = old.exists /\ row.id = old.id
        /\ row.rating = old.rating /\ row.editDay = old.editDay /\ row.editCount = old.editCount
        /\ row.deleted
    BY <1>0 DEF Reviews
  <2>2. WriteById(w, "moderate", row)
    BY <1>3 DEF ModerateReview
  <2> HIDE DEF row
  <2> QED BY <2>1, <2>2, <1>2
<1>4. CASE RestoreReview(w)
  <2> DEFINE row == [old EXCEPT !.deleted = FALSE]
  <2>1. /\ row \in Reviews /\ row.exists = old.exists /\ row.id = old.id
        /\ row.rating = old.rating /\ row.editDay = old.editDay /\ row.editCount = old.editCount
    BY <1>0 DEF Reviews
  <2>2. WriteById(w, "restore", row)
    BY <1>4 DEF RestoreReview
  <2> HIDE DEF row
  <2> QED BY <2>1, <2>2, <1>2
<1>5. CASE SetVisibility(w)
  <2> DEFINE row(flag) == [old EXCEPT !.hidden = flag]
  <2>1. ASSUME NEW flag \in BOOLEAN
        PROVE  /\ row(flag) \in Reviews /\ row(flag).exists = old.exists
               /\ row(flag).id = old.id /\ row(flag).rating = old.rating
               /\ row(flag).editDay = old.editDay /\ row(flag).editCount = old.editCount
               /\ row(flag).deleted = old.deleted
    BY <1>0 DEF Reviews
  <2>2. WriteById(w, "hide", row(TRUE)) \/ WriteById(w, "show", row(FALSE))
    BY <1>5 DEF SetVisibility
  <2> HIDE DEF row
  <2>3. CASE WriteById(w, "hide", row(TRUE))
    BY <2>1, <2>3, <1>2
  <2>4. CASE WriteById(w, "show", row(FALSE))
    BY <2>1, <2>4, <1>2
  <2> QED BY <2>2, <2>3, <2>4
<1> QED BY <1>1, <1>3, <1>4, <1>5

LEMMA AggregateKeepsAll ==
  ASSUME IInv, NEW w \in Requests, Aggregate(w)
  PROVE  IInv'
<1>1. PICK stats : req' = [req EXCEPT ![w].pc = "rate", ![w].stats = stats]
  BY Zenon DEF Aggregate
<1>2. OthersStay(w) /\ IsRequest(req'[w]) /\ req'[w].pc = "rate" /\ Same(req'[w], req[w])
  BY <1>1 DEF IInv, Typed, OthersStay, IsRequest, Fields, Same
<1>3. req[w].pc = "aggregate" /\ UNCHANGED <<version, cacheVars, review, edits, today, restarted>>
  BY DEF Aggregate, ReviewStep, shopVars, reviewVars, deviceVars, history
<1>4. Writes(req[w]) /\ req[w].op # "list"
  BY <1>3 DEF Writes, IInv, Loads, ListRequest
<1>5. Prepared(req'[w]) /\ Fits(req'[w])
  BY <1>2, <1>4 DEF IInv, Rows, Prepared, Fits, Same
<1>6. \A v \in Requests \ {w} : ~(Writes(req[v]) /\ req[v].user = req'[w].user)
  BY <1>2, <1>4 DEF IInv, Rows, Same
<1> QED BY <1>2, <1>3, <1>4, <1>5, <1>6, TransactionKeepsAll DEF Same

(* The commit: history and row change together. *)
LEMMA RateDeviceKeepsAll ==
  ASSUME IInv, NEW w \in Requests, RateDevice(w)
  PROVE  IInv'
<1> DEFINE u == req[w].user
           old == review[u]
           row == req[w].row
<1>1. Typed /\ Writes(req[w]) /\ Fits(req[w]) /\ req[w].op # "list" /\ Goto(w, "changed")
  BY DEF RateDevice, Writes, IInv, Rows, Loads, ListRequest
<1>2. /\ review' = [review EXCEPT ![u] = row] /\ version' = version + 1
      /\ UNCHANGED <<cacheVars, today, restarted>>
  BY DEF RateDevice, history
<1>3. OthersStay(w) /\ IsRequest(req'[w]) /\ req'[w].pc = "changed" /\ Same(req'[w], req[w])
  BY <1>1, Moves
<1>4. u \in Users /\ old \in Reviews /\ row \in Reviews /\ edits[u] \in Nat
  BY <1>1 DEF Fits, RowFits, Typed, IsRequest
<1>5. edits' = [edits EXCEPT ![u] = row.editCount]
  <2>1. edits[u] = old.editCount
    BY <1>4 DEF IInv, Rows, Counted
  <2>2. edits' = [edits EXCEPT ![u] = IF req[w].op # "edit" THEN IF row.exists THEN edits[u] ELSE 0
                                      ELSE IF row.editDay = old.editDay THEN edits[u] + 1 ELSE 1]
    BY <1>1, <1>4 DEF RateDevice, Typed
  <2> QED BY <1>1, <2>1, <2>2 DEF Fits, RowFits
<1>6. row.editCount <= REVIEW_EDITS_PER_DAY /\ (~row.exists => row.editCount = 0)
  BY <1>1, <1>4, LimitsAreCounted DEF Fits, RowFits, IInv, Rows, Counted
<1>7. Typed'
  BY <1>1, <1>2, <1>3, <1>4, <1>5 DEF Typed, OthersStay, cacheVars, redis, Reviews
<1>8. Loads'
  BY <1>1, <1>2, <1>3 DEF IInv, Loads, OthersStay, ListRequest, Current, cacheVars, redis, Same
<1>9. EveryChangeInvalidates'
  BY <1>3 DEF EveryChangeInvalidates
<1>10. Rows'
  <2>1. ~Writes(req'[w]) /\ Prepared(req'[w])
    BY <1>1, <1>3 DEF Writes, Prepared, IInv, Rows, Same
  <2>2. ASSUME NEW v \in Requests, Writes(req'[v]) PROVE v # w /\ Fits(req[v])'
    <3>1. v # w /\ req'[v] = req[v] /\ Fits(req[v])
      BY <2>1, <2>2, <1>3 DEF OthersStay, IInv, Rows
    <3>2. req[v].user # u
      BY <1>1, <2>2, <3>1 DEF IInv, Rows
    <3>3. review'[req[v].user] = review[req[v].user]
      BY <1>1, <1>2, <3>1, <3>2 DEF Fits, RowFits, Typed
    <3> QED BY <3>1, <3>3 DEF Fits, RowFits
  <2>3. Counted'
    BY <1>1, <1>2, <1>4, <1>5, <1>6 DEF Counted, IInv, Rows, Typed
  <2>4. ASSUME NEW v \in Requests PROVE Prepared(req[v])'
    BY <2>1, <1>3 DEF OthersStay, IInv, Rows, Prepared
  <2>5. ASSUME NEW v \in Requests, NEW x \in Requests, Writes(req'[v]), Writes(req'[x]),
               req'[v].user = req'[x].user
        PROVE  v = x
    BY <2>1, <2>5, <1>3 DEF OthersStay, IInv, Rows
  <2> QED BY <2>2, <2>3, <2>4, <2>5 DEF Rows, Prepared, Writes
<1> QED BY <1>7, <1>8, <1>9, <1>10 DEF IInv

-----------------------------------------------------------------------------
(* The cache *)

(* A step of the cache: what it leaves alone. *)
CacheOnly(w) ==
  /\ w \in Requests
  /\ OthersStay(w) /\ IsRequest(req'[w]) /\ Prepared(req'[w]) /\ ~Writes(req'[w])
  /\ UNCHANGED <<version, review, edits, today, restarted>>

LEMMA CacheOnlyKeepsRows ==
  ASSUME IInv, NEW w, CacheOnly(w)
  PROVE  Rows'
  BY DEF IInv, Rows, CacheOnly, OthersStay, Prepared, Writes, Fits, RowFits, Counted, Typed

LEMMA CacheOnlyKeepsChanges ==
  ASSUME IInv, NEW w, CacheOnly(w), fence' = fence, req[w].pc # "changed"
  PROVE  EveryChangeInvalidates'
  BY DEF IInv, EveryChangeInvalidates, CacheOnly, OthersStay, Typed

LEMMA MissListKeepsAll ==
  ASSUME IInv, NEW w \in Requests, NEW k \in Keys, MissList(w, k), UNCHANGED <<shopVars, history>>
  PROVE  IInv'
<1>1. OthersStay(w) /\ DOMAIN req'[w] = Fields /\ req'[w].row = NoReview /\ req'[w].seen = 0
      /\ req'[w].generation = 0 /\ req'[w].op = "list" /\ req'[w].pc = "missed" /\ req'[w].key = k
  BY DEF MissList, IInv, Typed, OthersStay, Idle, Fields
<1>2. CacheOnly(w)
  BY <1>1, NoReviewIsOne DEF CacheOnly, IsRequest, Prepared, Writes, MissList, shopVars, reviewVars, deviceVars, history
<1>3. UNCHANGED <<version, cacheVars>> /\ req[w].pc # "changed"
  BY IdleIsARequest DEF MissList
<1>4. Typed'
  BY <1>2, <1>3 DEF IInv, Typed, CacheOnly, OthersStay, cacheVars, redis
<1>5. Loads'
  BY <1>1, <1>3 DEF IInv, Loads, OthersStay, ListRequest, Current, cacheVars, redis
<1> QED BY <1>2, <1>3, <1>4, <1>5, CacheOnlyKeepsRows, CacheOnlyKeepsChanges DEF IInv, cacheVars

LEMMA StartLoadKeepsAll ==
  ASSUME IInv, NEW w \in Requests, StartLoad(w), UNCHANGED <<shopVars, history>>
  PROVE  IInv'
<1> DEFINE k == req[w].key
<1>1. /\ req[w].op = "list" /\ req[w].pc = "missed" /\ k \in Keys
      /\ UNCHANGED <<version, redis, generation, fence, review, edits, today, restarted>>
  BY DEF StartLoad, At, IInv, Loads, ListRequest, shopVars, reviewVars, deviceVars, history
<1>2. CASE inFlight[k] = None
  <2>1. /\ req' = [req EXCEPT ![w].pc = "load", ![w].generation = generation]
        /\ inFlight' = [inFlight EXCEPT ![k] = w]
    BY <1>2 DEF StartLoad
  <2>2. /\ OthersStay(w) /\ IsRequest(req'[w]) /\ req'[w].pc = "load" /\ req'[w].op = "list"
        /\ req'[w].key = k /\ req'[w].generation = generation
    BY <1>1, <2>1 DEF IInv, Typed, OthersStay, IsRequest, Fields
  <2>3. CacheOnly(w)
    BY <1>1, <2>2 DEF CacheOnly, Prepared, Writes
  <2>4. Typed'
    BY <1>1, <2>1, <2>3 DEF IInv, Typed, CacheOnly, OthersStay, redis
  <2>5. Loads'
    <3>1. ASSUME NEW v \in Requests \ {w} PROVE ListRequest(req[v])' /\ Current(v, req[v])'
      <4>1. req'[v] = req[v] /\ ListRequest(req[v]) /\ Current(v, req[v])
        BY <2>2 DEF OthersStay, IInv, Loads
      <4>2. v # None
        BY NobodyIsNone
      <4> QED BY <1>1, <1>2, <2>1, <4>1, <4>2 DEF ListRequest, Current, IInv, Typed
    <3>2. ListRequest(req[w])' /\ Current(w, req[w])'
      BY <1>1, <2>1, <2>2 DEF ListRequest, Current, IInv, Typed
    <3> QED BY <3>1, <3>2 DEF Loads
  <2> QED BY <1>1, <2>3, <2>4, <2>5, CacheOnlyKeepsRows, CacheOnlyKeepsChanges DEF IInv
<1>3. CASE inFlight[k] # None
  <2>1. Finish(w) /\ UNCHANGED cacheVars /\ Typed
    BY <1>1, <1>3 DEF StartLoad, cacheVars, IInv
  <2>2. OthersStay(w) /\ req'[w] = Idle /\ IsRequest(req'[w])
    BY <2>1, Finishes
  <2>3. OtherStep(w)
    BY <1>1, <2>1, <2>2, IdleIsARequest DEF OtherStep, OthersStay, Writes
  <2> QED BY <2>3, OtherStepKeepsAll
<1> QED BY <1>2, <1>3

(* A step of a load that neither begins nor ends it. *)
LEMMA LoadGoesOn ==
  ASSUME IInv, NEW w \in Requests, req[w].op = "list", req[w].pc \in {"load", "loaded"},
         OthersStay(w), IsRequest(req'[w]), req'[w].pc \in {"loaded", "settle"},
         req'[w].op = "list", req'[w].key = req[w].key, req'[w].generation = req[w].generation,
         req'[w].pc = "loaded" => req'[w].seen = version,
         UNCHANGED <<version, inFlight, generation, fence, shopVars, history>>,
         DOMAIN lists' = Keys
  PROVE  IInv'
<1>1. CacheOnly(w)
  BY DEF CacheOnly, Prepared, Writes, shopVars, reviewVars, deviceVars, history
<1>2. Typed'
  BY <1>1 DEF IInv, Typed, CacheOnly, OthersStay
<1>3. Loads'
  BY DEF IInv, Loads, OthersStay, ListRequest, Current, Typed
<1> QED BY <1>1, <1>2, <1>3, CacheOnlyKeepsRows, CacheOnlyKeepsChanges DEF IInv

LEMMA QueryListKeepsAll ==
  ASSUME IInv, NEW w \in Requests, QueryList(w), UNCHANGED <<shopVars, history>>
  PROVE  IInv'
<1>1. /\ req[w].op = "list" /\ req[w].pc = "load" /\ Typed /\ DOMAIN lists' = Keys
      /\ UNCHANGED <<version, inFlight, generation, fence>>
  BY DEF QueryList, At, cacheVars, redis, IInv, Typed
<1>2. CASE req' = [req EXCEPT ![w].pc = "loaded", ![w].seen = version]
  <2>1. /\ OthersStay(w) /\ IsRequest(req'[w]) /\ req'[w].pc = "loaded" /\ req'[w].op = "list"
        /\ req'[w].key = req[w].key /\ req'[w].generation = req[w].generation
        /\ req'[w].seen = version
    BY <1>1, <1>2 DEF Typed, OthersStay, IsRequest, Fields
  <2> QED BY <1>1, <2>1, LoadGoesOn
<1>3. CASE Goto(w, "settle")
  BY <1>1, <1>3, Moves, LoadGoesOn DEF Same
<1> QED BY <1>2, <1>3 DEF QueryList

LEMMA StoreListKeepsAll ==
  ASSUME IInv, NEW w \in Requests, StoreList(w), UNCHANGED <<shopVars, history>>
  PROVE  IInv'
<1>1. /\ req[w].op = "list" /\ req[w].pc = "loaded" /\ Typed /\ DOMAIN lists' = Keys
      /\ UNCHANGED <<version, inFlight, generation, fence>> /\ Goto(w, "settle")
  BY DEF StoreList, At, redis, Cached, IInv, Typed
<1> QED BY <1>1, Moves, LoadGoesOn DEF Same

LEMMA SettleLoadKeepsAll ==
  ASSUME IInv, NEW w \in Requests, SettleLoad(w), UNCHANGED <<shopVars, history>>
  PROVE  IInv'
<1>1. /\ req[w].op = "list" /\ req[w].pc = "settle" /\ Typed /\ Finish(w)
      /\ UNCHANGED <<version, redis, generation, fence>>
  BY DEF SettleLoad, At, IInv
<1>2. OthersStay(w) /\ req'[w] = Idle /\ IsRequest(req'[w])
  BY <1>1, Finishes
<1>3. CacheOnly(w)
  BY <1>1, <1>2, IdleIsARequest DEF CacheOnly, Writes, shopVars, reviewVars, deviceVars, history
<1>4. Typed'
  BY <1>1, <1>3 DEF Typed, CacheOnly, OthersStay, redis, SettleLoad
<1>5. \A q \in Keys, v \in Requests \ {w} : inFlight[q] = v => inFlight'[q] = v
  BY <1>1 DEF SettleLoad, Typed
<1>6. Loads'
  BY <1>1, <1>2, <1>5, IdleIsARequest DEF IInv, Loads, OthersStay, ListRequest, Current
<1> QED BY <1>1, <1>3, <1>4, <1>6, CacheOnlyKeepsRows, CacheOnlyKeepsChanges DEF IInv

(* The request of an invalidation is at no load. *)
LEMMA FlushListsKeepsAll ==
  ASSUME IInv, NEW w \in Requests, FlushLists(w), UNCHANGED <<shopVars, history>>
  PROVE  IInv'
<1>1. /\ req[w].op # "list" /\ req[w].pc = "changed" /\ Typed
      /\ generation' = generation + 1 /\ inFlight' = [k \in Keys |-> None]
      /\ fence' = version /\ UNCHANGED <<version, redis>>
  BY DEF FlushLists, IInv, Loads, ListRequest
<1>2. /\ OthersStay(w) /\ IsRequest(req'[w])
      /\ req'[w] = Idle \/ (req'[w].pc \in {"delete", "clean"} /\ Same(req'[w], req[w]))
  <2>1. CASE req' = [req EXCEPT ![w].pc = "delete", ![w].keys = index]
    BY <1>1, <2>1 DEF Typed, OthersStay, IsRequest, Fields, Same
  <2>2. CASE Clean(w, req[w].unused)
    BY <1>1, <2>2, Cleans
  <2> QED BY <2>1, <2>2 DEF FlushLists
<1>3. CacheOnly(w) /\ req'[w].op # "list"
  BY <1>1, <1>2, IdleIsARequest
  DEF CacheOnly, Writes, Same, Prepared, IInv, Rows, shopVars, reviewVars, deviceVars, history
<1>4. Typed'
  BY <1>1, <1>3 DEF Typed, CacheOnly, OthersStay, redis
<1>5. Loads'
  BY <1>1, <1>2, <1>3 DEF IInv, Loads, OthersStay, ListRequest, Current, Typed, IsRequest
<1> QED BY <1>1, <1>3, <1>4, <1>5, CacheOnlyKeepsRows DEF IInv, EveryChangeInvalidates

LEMMA DeleteListsKeepsAll ==
  ASSUME IInv, NEW w \in Requests, DeleteLists(w), UNCHANGED <<shopVars, history>>
  PROVE  IInv'
<1>1. /\ req[w].op # "list" /\ req[w].pc = "delete" /\ Typed /\ DOMAIN lists' = Keys
      /\ UNCHANGED <<version, inFlight, generation, fence>> /\ Clean(w, req[w].unused)
  BY DEF DeleteLists, IInv, Loads, ListRequest, redis, Typed
<1>2. /\ OthersStay(w) /\ IsRequest(req'[w])
      /\ req'[w] = Idle \/ (req'[w].pc = "clean" /\ Same(req'[w], req[w]))
  BY <1>1, Cleans
<1>3. CacheOnly(w) /\ req'[w].op # "list"
  BY <1>1, <1>2, IdleIsARequest
  DEF CacheOnly, Writes, Same, Prepared, IInv, Rows, shopVars, reviewVars, deviceVars, history
<1>4. Typed'
  BY <1>1, <1>3 DEF Typed, CacheOnly, OthersStay
<1>5. Loads'
  BY <1>1, <1>2, <1>3 DEF IInv, Loads, OthersStay, ListRequest, Current
<1> QED BY <1>1, <1>3, <1>4, <1>5, CacheOnlyKeepsRows, CacheOnlyKeepsChanges DEF IInv

-----------------------------------------------------------------------------
(* Steps of no request *)

LEMMA AsideKeepsAll ==
  ASSUME IInv,
         \/ \E k \in Keys : Expire(k) /\ UNCHANGED <<shopVars, history>>
         \/ \E i \in Images : UploadImage(i)
         \/ NextDay
  PROVE  IInv'
<1>1. /\ UNCHANGED <<version, inFlight, generation, fence, req, review, edits, restarted>>
      /\ today' \in {today, today + 1} /\ DOMAIN lists' = Keys
  BY DEF IInv, Typed, Expire, UploadImage, NextDay, cacheVars, redis, shopVars, reviewVars, deviceVars, history
<1>2. Typed'
  BY <1>1 DEF IInv, Typed
<1>3. Loads'
  BY <1>1 DEF IInv, Loads, ListRequest, Current
<1>4. EveryChangeInvalidates'
  BY <1>1 DEF IInv, EveryChangeInvalidates
<1>5. Rows'
  BY <1>1 DEF IInv, Rows, Prepared, Writes, Fits, RowFits, Counted
<1> QED BY <1>2, <1>3, <1>4, <1>5 DEF IInv

LEMMA RestartKeepsAll ==
  ASSUME IInv, Restart
  PROVE  IInv'
<1>1. /\ req' = [w \in Requests |-> Idle] /\ inFlight' = [k \in Keys |-> None]
      /\ generation' = 0 /\ restarted' = TRUE
      /\ UNCHANGED <<version, lists, fence, review, edits, today>>
  BY DEF Restart, redis, shopVars, reviewVars, deviceVars
<1>2. Typed'
  BY <1>1, IdleIsARequest DEF IInv, Typed
<1>3. Loads'
  BY <1>1, IdleIsARequest DEF Loads, ListRequest, Current
<1>4. EveryChangeInvalidates'
  BY <1>1 DEF EveryChangeInvalidates
<1>5. Rows'
  BY <1>1, IdleIsARequest DEF IInv, Rows, Writes, Counted
<1> QED BY <1>2, <1>3, <1>4, <1>5 DEF IInv

-----------------------------------------------------------------------------
LEMMA InitHasAll == Init => IInv
<1> SUFFICES ASSUME Init PROVE IInv
  OBVIOUS
<1>1. /\ version = 0 /\ fence = 0 /\ generation = 0 /\ today = 1
      /\ lists = [k \in Keys |-> None] /\ inFlight = [k \in Keys |-> None]
      /\ req = [w \in Requests |-> Idle] /\ edits = [u \in Users |-> review[u].editCount]
  BY DEF Init, CacheInit
<1>2. ASSUME NEW u \in Users
      PROVE  /\ review[u] \in Reviews /\ review[u].editCount \in {0, 1}
             /\ ~review[u].exists => review[u].editCount = 0
  <2>1. FirstRatings[u] \in Nat
    <3>1. FirstRatings[u] \in Ratings \union {0}
      BY StartsWithADevice, Zenon
    <3>2. Ratings \subseteq Nat
      BY LimitsAreCounted
    <3>3. CASE FirstRatings[u] \in Ratings
      BY <3>2, <3>3, Zenon
    <3>4. CASE FirstRatings[u] = 0
      BY <3>4
    <3> QED BY <3>1, <3>3, <3>4, Zenon
  <2>2. review[u] = IF FirstRatings[u] = 0 THEN NoReview
                    ELSE [NoReview EXCEPT !.exists = TRUE, !.id = 1, !.rating = FirstRatings[u],
                                          !.editDay = 1, !.editCount = 1]
    BY DEF Init
  <2>3. CASE FirstRatings[u] = 0
    BY <2>2, <2>3, NoReviewIsOne DEF NoReview
  <2>4. CASE FirstRatings[u] # 0
    <3>1. review[u] = [exists |-> TRUE, id |-> 1, rating |-> FirstRatings[u], hidden |-> FALSE,
                       deleted |-> FALSE, editDay |-> 1, editCount |-> 1]
      BY <2>2, <2>4 DEF NoReview
    <3> QED BY <2>1, <3>1 DEF Reviews
  <2> QED BY <2>3, <2>4
<1>3. Typed
  <2>1. DOMAIN review = Users /\ review = [u \in DOMAIN review |-> review[u]]
    BY DEF Init
  <2>2. review \in [Users -> Reviews]
    BY <1>2, <2>1
  <2> QED BY <1>1, <1>2, <2>2, IdleIsARequest DEF Typed
<1>4. Loads
  BY <1>1, IdleIsARequest DEF Loads, ListRequest, Current
<1>5. Rows
  BY <1>1, <1>2, IdleIsARequest, LimitsAreCounted DEF Rows, Writes, Counted
<1> QED BY <1>1, <1>3, <1>4, <1>5 DEF IInv, EveryChangeInvalidates

LEMMA CacheStepKeepsAll ==
  ASSUME IInv, NEW w \in Requests, CacheRequest(w)
  PROVE  IInv'
  BY MissListKeepsAll, StartLoadKeepsAll, QueryListKeepsAll, StoreListKeepsAll,
     SettleLoadKeepsAll, FlushListsKeepsAll, DeleteListsKeepsAll
  DEF CacheRequest, CacheStep

LEMMA ReviewStepKeepsAll ==
  ASSUME IInv, NEW w \in Requests, ReviewRequest(w)
  PROVE  IInv'
  BY ReviewRequestsBegin, OtherStepKeepsAll, InsertReviewKeepsAll, EditSameDayKeepsAll,
     EditNewDayKeepsAll, WritersByIdKeepAll, AggregateKeepsAll, RateDeviceKeepsAll
  DEF ReviewRequest

LEMMA DeviceStepKeepsAll ==
  ASSUME IInv, NEW w \in Requests, DeviceRequest(w) \/ Fail(w)
  PROVE  IInv'
  BY ShopRequestsBegin, ShopRequestsGoOn, FailureIsOther, OtherStepKeepsAll DEF DeviceRequest

LEMMA NextKeepsAll == IInv /\ [Next]_vars => IInv'
<1> SUFFICES ASSUME IInv, [Next]_vars PROVE IInv'
  OBVIOUS
<1>1. CASE UNCHANGED vars
  BY <1>1 DEF vars, cacheVars, redis, shopVars, reviewVars, deviceVars, history, IInv, Typed, Loads, ListRequest, Current,
              EveryChangeInvalidates, Rows, Prepared, Writes, Fits, RowFits, Counted
<1>2. CASE Next
  BY <1>2, CacheStepKeepsAll, ReviewStepKeepsAll, DeviceStepKeepsAll, AsideKeepsAll, RestartKeepsAll
  DEF Next
<1> QED BY <1>1, <1>2

(* The rows of the requests, of the reviews and of the cache keep their     *)
(* shape, and the history variables say what they are named for.            *)
THEOREM CatalogueTyped == Spec => []IInv
  BY InitHasAll, NextKeepsAll, PTL DEF Spec

(* Single flight: whatever number of requests miss a key together, one load *)
(* of the current generation is under way for it.                           *)
THEOREM OneLoadForEachKey == Spec => []OneLoadPerKey
<1>1. IInv => OneLoadPerKey
  BY DEF IInv, Loads, ListRequest, Current, OneLoadPerKey, Loading
<1> QED BY <1>1, CatalogueTyped, PTL

(* Every writer invalidates the lists after its change.                     *)
THEOREM NoWriterForgetsTheLists == Spec => []EveryChangeInvalidates
<1>1. IInv => EveryChangeInvalidates
  BY DEF IInv
<1> QED BY <1>1, CatalogueTyped, PTL

(* The two conditional updates of an edit keep to the limit of a day, for   *)
(* every number of edits in progress.                                       *)
THEOREM NobodyEditsTooOften == Spec => []EditsPerDayBounded
<1>1. IInv => EditsPerDayBounded
  BY DEF IInv, Rows, Counted, EditsPerDayBounded
<1> QED BY <1>1, CatalogueTyped, PTL

(* Only StoreList writes a list, and it compares generations: what it has   *)
(* read is then no older than the last invalidation.                        *)
LEMMA NoStepStoresAStaleList ==
  ASSUME IInv, Next
  PROVE  \A k \in Keys : lists'[k] \notin {None, lists[k]} => lists'[k] >= fence
<1> DEFINE Fresh == \A k \in Keys : lists'[k] \notin {None, lists[k]} => lists'[k] >= fence
<1>1. CASE lists' = lists
  BY <1>1
<1>2. ASSUME NEW w \in Requests, StoreList(w) PROVE Fresh
  <2>1. CASE req[w].generation = generation /\ Cached(req[w].key, req[w].seen)
    <3>1. req[w].seen >= fence
      BY <1>2, <2>1 DEF IInv, Loads, Current, StoreList, At
    <3> QED BY <2>1, <3>1 DEF Cached, IInv, Typed
  <2>2. CASE UNCHANGED redis
    BY <2>2, <1>1 DEF redis
  <2> QED BY <1>2, <2>1, <2>2 DEF StoreList
<1>3. ASSUME NEW w \in Requests, DeleteLists(w) PROVE Fresh
  BY <1>1, <1>3 DEF DeleteLists, redis
<1>4. ASSUME NEW k \in Keys, Expire(k) PROVE Fresh
  BY <1>4 DEF Expire, IInv, Typed
<1>5. ASSUME NEW w \in Requests, ReviewRequest(w) \/ DeviceRequest(w) \/ Fail(w) PROVE lists' = lists
  <2>1. CASE ReviewRequest(w)
    BY <2>1 DEF ReviewRequest, BeginCreate, BeginEdit, BeginRemove, BeginModerate, BeginRestore,
                BeginVisibility, BeginReview, Begin, InsertReview, EditSameDay, EditNewDay,
                RemoveReview, ModerateReview, RestoreReview, SetVisibility,
                WriteById, Aggregate, RateDevice, ReviewStep, cacheVars, redis
  <2>2. CASE DeviceRequest(w)
    BY <2>2 DEF DeviceRequest, ChangeStatus, CreateDevice, PatchDevice, Change, BeginReplace, BeginAdd,
                BeginDrop, Begin, ReplaceImages, AddImages, RemoveDevice, SaveImages, CountUses,
                DestroyImage, OpenTicket, BeginTicket, ProgressTicket, ResolveTicket, TicketStep, cacheVars, redis
  <2>3. CASE Fail(w)
    BY <2>3 DEF Fail, cacheVars, redis
  <2> QED BY <1>5, <2>1, <2>2, <2>3
<1>6. ASSUME NEW w \in Requests, CacheRequest(w) PROVE Fresh
  <2>1. CASE StoreList(w)
    BY <2>1, <1>2
  <2>2. CASE DeleteLists(w)
    BY <2>2, <1>3
  <2>3. CASE ~StoreList(w) /\ ~DeleteLists(w)
    <3>1. lists' = lists
      BY <1>6, <2>3 DEF CacheRequest, CacheStep, MissList, StartLoad, QueryList, SettleLoad,
                        FlushLists, cacheVars, redis
    <3> QED BY <1>1, <3>1
  <2> QED BY <2>1, <2>2, <2>3
<1>7. ASSUME (\E i \in Images : UploadImage(i)) \/ Restart \/ NextDay PROVE lists' = lists
  BY <1>7 DEF UploadImage, Restart, NextDay, cacheVars, redis
<1> QED BY <1>1, <1>4, <1>5, <1>6, <1>7 DEF Next

(* No list that is older than the last invalidation is stored.              *)
THEOREM NobodyStoresAStaleList == Spec => NoStaleListStored
<1>1. IInv /\ [Next]_vars =>
        [\A k \in Keys : lists'[k] \notin {None, lists[k]} => lists'[k] >= fence]_<<lists, fence>>
  BY NoStepStoresAStaleList DEF vars, cacheVars, redis
<1> QED BY <1>1, CatalogueTyped, PTL DEF Spec, NoStaleListStored

(* Only RateDevice writes a review's row, and the row it has prepared fits. *)
Kept ==
  \A u \in Users : review[u].exists /\ review[u].deleted =>
    \/ /\ SameReview(review[u], review'[u])
       /\ review'[u].deleted \/ \E w \in Requests : Commits(w, "restore", u)
    \/ ~review'[u].exists /\ \E w \in Requests : Commits(w, "remove", u)

LEMMA NoStepRewritesARemovedReview ==
  ASSUME IInv, Next, review' # review
  PROVE  Kept
<1>1. ASSUME NEW w \in Requests, RateDevice(w) PROVE Kept
  <2> DEFINE u == req[w].user
  <2>1. review' = [review EXCEPT ![u] = req[w].row] /\ req[w].pc = "rate"
    BY <1>1 DEF RateDevice
  <2>2. RowFits(req[w].op, u, req[w].row)
    BY <2>1 DEF IInv, Rows, Writes, Fits
  <2>3. \A x \in Users : x # u => review'[x] = review[x]
    BY <2>1 DEF IInv, Typed
  <2>4. u \in Users /\ review'[u] = req[w].row
    BY <2>1, <2>2 DEF RowFits, IInv, Typed
  <2>5. ASSUME NEW x \in Users, x # u, review[x].exists, review[x].deleted
        PROVE  SameReview(review[x], review'[x]) /\ review'[x].deleted
    BY <2>3, <2>5 DEF SameReview
  <2>6. ASSUME review[u].exists, review[u].deleted
        PROVE  \/ /\ SameReview(review[u], review'[u])
                  /\ review'[u].deleted \/ \E v \in Requests : Commits(v, "restore", u)
               \/ ~review'[u].exists /\ \E v \in Requests : Commits(v, "remove", u)
    <3>1. \A op : req[w].op = op => Commits(w, op, u)
      BY <2>1 DEF Commits, At
    <3>2. \/ SameReview(review[u], review'[u]) /\ (review'[u].deleted \/ req[w].op = "restore")
          \/ req[w].op = "remove" /\ ~review'[u].exists
      BY <2>2, <2>4, <2>6 DEF RowFits
    <3> QED BY <3>1, <3>2
  <2> HIDE DEF u
  <2> QED BY <2>4, <2>5, <2>6 DEF Kept
<1>2. ASSUME NEW w \in Requests, ReviewRequest(w), ~RateDevice(w) PROVE review' = review
  BY <1>2 DEF ReviewRequest, BeginCreate, BeginEdit, BeginRemove, BeginModerate, BeginRestore,
              BeginVisibility, BeginReview, Begin, InsertReview, EditSameDay, EditNewDay,
              RemoveReview, ModerateReview, RestoreReview, SetVisibility,
              WriteById, Aggregate, ReviewStep, shopVars, reviewVars, deviceVars
<1>3. ASSUME NEW w \in Requests, DeviceRequest(w) \/ Fail(w) \/ CacheRequest(w)
      PROVE  review' = review
  <2>1. CASE DeviceRequest(w)
    BY <2>1 DEF DeviceRequest, ChangeStatus, CreateDevice, PatchDevice, Change, BeginReplace, BeginAdd,
                BeginDrop, Begin, ReplaceImages, AddImages, RemoveDevice, SaveImages, CountUses,
                DestroyImage, OpenTicket, BeginTicket, ProgressTicket, ResolveTicket, TicketStep,
                shopVars, reviewVars, deviceVars
  <2>2. CASE Fail(w) \/ CacheRequest(w)
    BY <2>2 DEF Fail, CacheRequest, shopVars, reviewVars, deviceVars
  <2> QED BY <1>3, <2>1, <2>2
<1>4. ASSUME \/ \E k \in Keys : Expire(k) /\ UNCHANGED <<shopVars, history>>
             \/ \E i \in Images : UploadImage(i)
             \/ Restart \/ NextDay
      PROVE  review' = review
  BY <1>4 DEF UploadImage, Restart, NextDay, shopVars, reviewVars, deviceVars
<1> QED BY <1>1, <1>2, <1>3, <1>4 DEF Next

(* A removed review stays as it is until a restore; its author's removal,   *)
(* allowed before, is the only other commit that touches the row.           *)
THEOREM NobodyEditsARemovedReview == Spec => RemovedReviewIsKept
<1>1. IInv /\ [Next]_vars => [Kept]_review
  BY NoStepRewritesARemovedReview DEF vars, shopVars, reviewVars
<1>2. Spec => [][Kept]_review
  BY <1>1, CatalogueTyped, PTL DEF Spec
<1> QED BY <1>2 DEF Kept, RemovedReviewIsKept

-----------------------------------------------------------------------------
(* Images *)

(* Images that are saved have been uploaded, and only a request about       *)
(* images has any to delete.                                                *)
ImagesTyped ==
  /\ image \in [Images -> {"fresh", "stored", "deleted"}]
  /\ DOMAIN shown = Devices /\ DOMAIN exposed = Devices
  /\ \A d \in Devices : shown[d] \subseteq Uploaded
  /\ \A w \in Requests :
       IF req[w].op \in {"replace", "add", "drop"}
         THEN req[w].pc = "write" => req[w].images \subseteq Uploaded
         ELSE req[w].unused = {} /\ req[w].pc \notin {"clean", "destroy"}

(* An image that is about to be deleted is one that no row had when its     *)
(* uses were counted: a row that has it was saved since.                    *)
UnusedWhenCounted ==
  \A w \in Requests, d \in Devices :
    req[w].pc = "destroy" => req[w].images \intersect shown[d] \subseteq exposed[d]

ImagesInv == ImagesTyped /\ ShownImagesAreStored /\ UnusedWhenCounted

(* The record of a request after a step that leaves the images alone: one   *)
(* about something else, or one about images that neither saves nor         *)
(* deletes next.                                                            *)
Elsewhere(w) ==
  /\ req'[w].pc # "destroy"
  /\ \/ /\ req'[w].op \notin {"replace", "add", "drop"}
        /\ req'[w].unused = {} /\ req'[w].pc # "clean"
     \/ /\ req'[w].op \in {"replace", "add", "drop"}
        /\ req'[w].pc = "write" => req'[w].images \subseteq Uploaded

LEMMA ElsewhereKeepsImages ==
  ASSUME ImagesInv, NEW w \in Requests, OthersStay(w), Elsewhere(w),
         UNCHANGED <<shown, exposed, image>>
  PROVE  ImagesInv'
<1>1. ImagesTyped'
  BY DEF ImagesInv, ImagesTyped, OthersStay, Elsewhere, Uploaded
<1>2. ShownImagesAreStored'
  BY DEF ImagesInv, ShownImagesAreStored
<1>3. UnusedWhenCounted'
  BY DEF ImagesInv, UnusedWhenCounted, OthersStay, Elsewhere
<1> QED BY <1>1, <1>2, <1>3 DEF ImagesInv

(* A row is saved: what is deleted or about to be is recorded as exposed.   *)
LEMMA SaveRowKeepsImages ==
  ASSUME ImagesInv, NEW w \in Requests, OthersStay(w), Elsewhere(w), NEW d,
         NEW images \in SUBSET Uploaded, SaveRow(d, images), UNCHANGED image
  PROVE  ImagesInv'
<1> DEFINE lost == {i \in images : Doomed(i)}
<1>1. \A e \in Devices : \/ e = d /\ shown'[e] = images /\ exposed'[e] = lost
                         \/ e # d /\ shown'[e] = shown[e] /\ exposed'[e] = exposed[e]
  BY DEF SaveRow, ImagesInv, ImagesTyped
<1>2. \A i \in images : image[i] = "stored" \/ i \in lost
  BY DEF Uploaded, Doomed, ImagesInv, ImagesTyped
<1>3. \A v \in Requests : req[v].pc = "destroy" => req[v].images \intersect images \subseteq lost
  BY DEF Doomed
<1> HIDE DEF lost
<1>4. ImagesTyped'
  BY <1>1 DEF SaveRow, ImagesInv, ImagesTyped, OthersStay, Elsewhere, Uploaded
<1>5. ShownImagesAreStored'
  BY <1>1, <1>2 DEF ImagesInv, ShownImagesAreStored
<1>6. UnusedWhenCounted'
  BY <1>1, <1>3 DEF ImagesInv, UnusedWhenCounted, OthersStay, Elsewhere
<1> QED BY <1>4, <1>5, <1>6 DEF ImagesInv

LEMMA FinishesElsewhere ==
  ASSUME Typed, NEW w \in Requests, Finish(w)
  PROVE  OthersStay(w) /\ Elsewhere(w)
  BY DEF Typed, Finish, OthersStay, Elsewhere, Idle

LEMMA MovesElsewhere ==
  ASSUME Typed, ImagesTyped, NEW w \in Requests, NEW pc, Goto(w, pc),
         pc \notin {"write", "clean", "destroy"}
  PROVE  OthersStay(w) /\ Elsewhere(w)
  BY DEF Typed, Goto, IsRequest, Fields, ImagesTyped, OthersStay, Elsewhere

LEMMA CleansElsewhere ==
  ASSUME Typed, ImagesTyped, NEW w \in Requests, Clean(w, req[w].unused) \/
         \E i \in req[w].unused : Clean(w, req[w].unused \ {i})
  PROVE  OthersStay(w) /\ Elsewhere(w)
<1>1. PICK unused : Clean(w, unused) /\ unused \subseteq req[w].unused
  OBVIOUS
<1>2. CASE unused = {}
  BY <1>1, <1>2, FinishesElsewhere DEF Clean
<1>3. CASE unused # {}
  BY <1>1, <1>3 DEF Clean, Typed, IsRequest, Fields, ImagesTyped, OthersStay, Elsewhere
<1> QED BY <1>2, <1>3

LEMMA ReviewKeepsImages ==
  ASSUME IInv, ImagesInv, NEW w \in Requests, ReviewRequest(w)
  PROVE  ImagesInv'
<1> DEFINE ops == {"create", "edit", "remove", "moderate", "restore", "hide", "show"}
<1>0. Typed /\ ImagesTyped
  BY DEF IInv, ImagesInv
<1>1. ASSUME NEW u \in Users, NEW op \in ops, NEW row, BeginReview(w, u, op, row, "write")
      PROVE  ImagesInv'
  <2>1. OthersStay(w) /\ Elsewhere(w)
    BY <1>0, <1>1 DEF BeginReview, Begin, Typed, OthersStay, Elsewhere, Idle
  <2>2. UNCHANGED <<shown, exposed, image>>
    BY <1>1 DEF BeginReview, Begin, shopVars, deviceVars
  <2> QED BY <2>1, <2>2, ElsewhereKeepsImages
<1>2. ASSUME NEW u \in Users, \/ BeginCreate(w, u) \/ BeginEdit(w, u) \/ BeginRemove(w, u)
                              \/ BeginModerate(w, u) \/ BeginRestore(w, u) \/ BeginVisibility(w, u)
      PROVE  ImagesInv'
  BY <1>1, <1>2 DEF BeginCreate, BeginEdit, BeginRemove, BeginModerate, BeginRestore, BeginVisibility
<1>3. ASSUME NEW row, Written(w, row), ReviewStep PROVE ImagesInv'
  <2>1. OthersStay(w) /\ Elsewhere(w)
    BY <1>0, <1>3 DEF Written, Typed, IsRequest, Fields, ImagesTyped, OthersStay, Elsewhere
  <2> QED BY <1>3, <2>1, ElsewhereKeepsImages DEF ReviewStep, shopVars, deviceVars
<1>4. ASSUME Finish(w) \/ Goto(w, "newDay"), ReviewStep PROVE ImagesInv'
  <2>1. OthersStay(w) /\ Elsewhere(w)
    BY <1>0, <1>4, FinishesElsewhere, MovesElsewhere
  <2> QED BY <1>4, <2>1, ElsewhereKeepsImages DEF ReviewStep, shopVars, deviceVars
<1>5. CASE \/ InsertReview(w) \/ EditSameDay(w) \/ EditNewDay(w)
           \/ RemoveReview(w) \/ ModerateReview(w) \/ RestoreReview(w) \/ SetVisibility(w)
  BY <1>3, <1>4, <1>5 DEF InsertReview, EditSameDay, EditNewDay, RemoveReview, ModerateReview,
                          RestoreReview, SetVisibility, WriteById
<1>6. CASE Aggregate(w)
  <2>1. OthersStay(w) /\ Elsewhere(w)
    BY <1>0, <1>6 DEF Aggregate, Typed, IsRequest, Fields, ImagesTyped, OthersStay, Elsewhere
  <2> QED BY <1>6, <2>1, ElsewhereKeepsImages DEF Aggregate, ReviewStep, shopVars, deviceVars
<1>7. CASE RateDevice(w)
  <2>1. OthersStay(w) /\ Elsewhere(w)
    BY <1>0, <1>7, MovesElsewhere DEF RateDevice
  <2> QED BY <1>7, <2>1, ElsewhereKeepsImages DEF RateDevice, deviceVars
<1> QED BY <1>2, <1>5, <1>6, <1>7 DEF ReviewRequest

LEMMA CacheKeepsImages ==
  ASSUME IInv, ImagesInv, NEW w \in Requests, CacheRequest(w)
  PROVE  ImagesInv'
<1>0. Typed /\ ImagesTyped
  BY DEF IInv, ImagesInv
<1>1. UNCHANGED <<shown, exposed, image>>
  BY DEF CacheRequest, shopVars, deviceVars
<1>2. OthersStay(w) /\ Elsewhere(w)
  <2>1. CASE \E k \in Keys : MissList(w, k)
    BY <1>0, <2>1 DEF MissList, Typed, OthersStay, Elsewhere, Idle
  <2>2. CASE \/ req' = [req EXCEPT ![w].pc = "load", ![w].generation = generation]
             \/ req' = [req EXCEPT ![w].pc = "loaded", ![w].seen = version]
             \/ req' = [req EXCEPT ![w].pc = "delete", ![w].keys = index]
    BY <1>0, <2>2 DEF Typed, IsRequest, Fields, ImagesTyped, OthersStay, Elsewhere
  <2>3. CASE Finish(w) \/ Goto(w, "settle")
    BY <1>0, <2>3, FinishesElsewhere, MovesElsewhere
  <2>4. CASE Clean(w, req[w].unused)
    BY <1>0, <2>4, CleansElsewhere
  <2> QED BY <2>1, <2>2, <2>3, <2>4 DEF CacheRequest, CacheStep, StartLoad, QueryList, StoreList,
                                        SettleLoad, FlushLists, DeleteLists
<1> QED BY <1>1, <1>2, ElsewhereKeepsImages

(* A request about images begins: what it is going to save is uploaded.    *)
LEMMA ImageRequestBegins ==
  ASSUME IInv, ImagesInv, NEW w \in Requests, NEW r, Begin(w, r),
         r.op \in {"replace", "add", "drop"}, r.pc = "write", r.images \subseteq Uploaded
  PROVE  ImagesInv'
<1>1. OthersStay(w) /\ req'[w] = r /\ UNCHANGED <<shown, exposed, image>>
  BY DEF Begin, IInv, Typed, OthersStay, shopVars, deviceVars
<1>2. Elsewhere(w)
  BY <1>1 DEF Elsewhere
<1> QED BY <1>1, <1>2, ElsewhereKeepsImages

LEMMA ImageRequestsBegin ==
  ASSUME IInv, ImagesInv, NEW w \in Requests, NEW d \in Devices,
         BeginReplace(w, d) \/ BeginAdd(w, d) \/ BeginDrop(w, d)
  PROVE  ImagesInv'
<1>0. ImagesTyped
  BY DEF ImagesInv
<1>1. CASE BeginReplace(w, d)
  <2>1. PICK kept \in ImageSets, discarded \in SUBSET (Uploaded \ shown[d]) :
          Begin(w, [Idle EXCEPT !.op = "replace", !.pc = "write", !.device = d, !.images = kept,
                                !.unused = (shown[d] \union discarded) \ kept])
    BY <1>1, Zenon DEF BeginReplace
  <2> DEFINE r == [Idle EXCEPT !.op = "replace", !.pc = "write", !.device = d, !.images = kept,
                               !.unused = (shown[d] \union discarded) \ kept]
  <2>2. r.op = "replace" /\ r.pc = "write" /\ r.images = kept /\ kept \subseteq Uploaded
    BY DEF Idle, ImageSets
  <2>3. Begin(w, r)
    BY <2>1
  <2> HIDE DEF r
  <2> QED BY <2>2, <2>3, ImageRequestBegins
<1>2. CASE BeginAdd(w, d)
  <2>1. PICK i \in Images :
          /\ image[i] = "stored"
          /\ Begin(w, [Idle EXCEPT !.op = "add", !.pc = "write", !.device = d,
                                   !.images = shown[d] \union {i}])
    BY <1>2 DEF BeginAdd
  <2> DEFINE r == [Idle EXCEPT !.op = "add", !.pc = "write", !.device = d,
                               !.images = shown[d] \union {i}]
  <2>2. r.op = "add" /\ r.pc = "write" /\ r.images = shown[d] \union {i}
    BY DEF Idle
  <2>3. Begin(w, r)
    BY <2>1
  <2> HIDE DEF r
  <2>4. r.images \subseteq Uploaded
    BY <1>0, <2>1, <2>2 DEF ImagesTyped, Uploaded
  <2> QED BY <2>2, <2>3, <2>4, ImageRequestBegins
<1>3. CASE BeginDrop(w, d)
  <2> DEFINE r == [Idle EXCEPT !.op = "drop", !.pc = "write", !.device = d, !.unused = shown[d]]
  <2>1. r.op = "drop" /\ r.pc = "write" /\ r.images = {}
    BY DEF Idle
  <2>2. Begin(w, r)
    BY <1>3 DEF BeginDrop
  <2> HIDE DEF r
  <2> QED BY <2>1, <2>2, ImageRequestBegins
<1> QED BY <1>1, <1>2, <1>3

LEMMA SavingKeepsImages ==
  ASSUME IInv, ImagesInv, NEW w \in Requests, ReplaceImages(w) \/ AddImages(w) \/ RemoveDevice(w)
  PROVE  ImagesInv'
<1>0. Typed /\ ImagesTyped /\ UNCHANGED image
  BY DEF ReplaceImages, AddImages, RemoveDevice, SaveImages, IInv, ImagesInv
<1>1. req[w].images \subseteq Uploaded
  BY DEF ReplaceImages, AddImages, RemoveDevice, At, ImagesInv, ImagesTyped
<1>2. \/ Finish(w) /\ UNCHANGED <<shown, exposed>>
      \/ Goto(w, "changed") /\ \E images \in SUBSET Uploaded : SaveRow(req[w].device, images)
  BY <1>1 DEF ReplaceImages, AddImages, RemoveDevice, SaveImages, deviceVars
<1>3. OthersStay(w) /\ Elsewhere(w)
  BY <1>0, <1>2, FinishesElsewhere, MovesElsewhere
<1> QED BY <1>0, <1>2, <1>3, ElsewhereKeepsImages, SaveRowKeepsImages

(* An image that is found unused is in no row.                              *)
LEMMA CountUsesKeepsImages ==
  ASSUME IInv, ImagesInv, NEW w \in Requests, CountUses(w)
  PROVE  ImagesInv'
<1>0. /\ Typed /\ ImagesTyped /\ req[w].pc = "clean"
      /\ UNCHANGED <<shown, exposed, image>>
  BY DEF CountUses, IInv, ImagesInv, shopVars, deviceVars
<1>1. PICK i \in req[w].unused :
        IF \E d \in Devices : i \in shown[d]
          THEN Clean(w, req[w].unused \ {i})
          ELSE req' = [req EXCEPT ![w].pc = "destroy", ![w].images = {i}, ![w].unused = @ \ {i}]
  BY DEF CountUses
<1>2. CASE \E d \in Devices : i \in shown[d]
  BY <1>0, <1>1, <1>2, CleansElsewhere, ElsewhereKeepsImages
<1>3. CASE ~\E d \in Devices : i \in shown[d]
  <2>1. /\ OthersStay(w) /\ req'[w].pc = "destroy" /\ req'[w].op = req[w].op
        /\ req'[w].images = {i}
    BY <1>0, <1>1, <1>3 DEF Typed, IsRequest, Fields, OthersStay
  <2>2. ImagesTyped'
    BY <1>0, <2>1 DEF ImagesTyped, OthersStay, Uploaded
  <2>3. ShownImagesAreStored'
    BY <1>0 DEF ImagesInv, ShownImagesAreStored
  <2>4. UnusedWhenCounted'
    BY <1>0, <1>3, <2>1 DEF ImagesInv, UnusedWhenCounted, OthersStay
  <2> QED BY <2>2, <2>3, <2>4 DEF ImagesInv
<1> QED BY <1>2, <1>3

LEMMA DestroyImageKeepsImages ==
  ASSUME IInv, ImagesInv, NEW w \in Requests, DestroyImage(w)
  PROVE  ImagesInv'
<1>0. /\ Typed /\ ImagesTyped /\ req[w].pc = "destroy"
      /\ UNCHANGED <<shown, exposed>> /\ Clean(w, req[w].unused)
  BY DEF DestroyImage, IInv, ImagesInv, deviceVars
<1>1. OthersStay(w) /\ Elsewhere(w)
  BY <1>0, CleansElsewhere
<1>2. CASE UNCHANGED image
  BY <1>0, <1>1, <1>2, ElsewhereKeepsImages
<1>3. CASE image' = [i \in Images |-> IF i \in req[w].images THEN "deleted" ELSE image[i]]
  <2>1. \A i \in Images : image[i] # "fresh" => image'[i] # "fresh"
    BY <1>3
  <2>2. image' \in [Images -> {"fresh", "stored", "deleted"}] /\ Uploaded \subseteq Uploaded'
    BY <1>0, <1>3, <2>1 DEF ImagesTyped, Uploaded
  <2>3. ImagesTyped'
    BY <1>0, <1>1, <2>2 DEF ImagesTyped, OthersStay, Elsewhere
  <2>4. ShownImagesAreStored'
    BY <1>0, <1>3 DEF ImagesInv, ImagesTyped, ShownImagesAreStored, UnusedWhenCounted, Uploaded
  <2>5. UnusedWhenCounted'
    BY <1>0, <1>1 DEF ImagesInv, UnusedWhenCounted, OthersStay, Elsewhere
  <2> QED BY <2>3, <2>4, <2>5 DEF ImagesInv
<1> QED BY <1>2, <1>3 DEF DestroyImage

LEMMA DeviceKeepsImages ==
  ASSUME IInv, ImagesInv, NEW w \in Requests, DeviceRequest(w) \/ Fail(w)
  PROVE  ImagesInv'
<1>0. Typed /\ ImagesTyped
  BY DEF IInv, ImagesInv
<1>1. ASSUME NEW op \in {"status", "form", "ticket"}, Change(w, op)
      PROVE  OthersStay(w) /\ Elsewhere(w)
  BY <1>0, <1>1 DEF Change, Typed, OthersStay, Elsewhere, Idle
<1>2. ASSUME NEW d \in Devices, CreateDevice(w, d) \/ PatchDevice(w, d) PROVE ImagesInv'
  <2>1. OthersStay(w) /\ Elsewhere(w) /\ UNCHANGED image
    BY <1>1, <1>2 DEF CreateDevice, PatchDevice
  <2>2. \/ UNCHANGED <<shown, exposed>>
        \/ \E images \in SUBSET Uploaded : SaveRow(d, images)
    BY <1>2 DEF CreateDevice, PatchDevice, ImageSets
  <2> QED BY <2>1, <2>2, ElsewhereKeepsImages, SaveRowKeepsImages
<1>3. ASSUME ChangeStatus(w) \/ \E t \in Tickets : OpenTicket(w, t) \/ BeginTicket(w, t)
      PROVE  ImagesInv'
  <2>1. OthersStay(w) /\ Elsewhere(w)
    <3>1. CASE ChangeStatus(w) \/ \E t \in Tickets : OpenTicket(w, t)
      BY <1>1, <3>1 DEF ChangeStatus, OpenTicket
    <3>2. CASE \E t \in Tickets : BeginTicket(w, t)
      <4>1. PICK op \in {"progress", "resolve"}, t \in Tickets :
              req' = [req EXCEPT ![w] = [Idle EXCEPT !.op = op, !.pc = "write", !.ticket = t]]
        BY <3>2 DEF BeginTicket, Begin
      <4> QED BY <1>0, <4>1 DEF Typed, OthersStay, Elsewhere, Idle
    <3> QED BY <1>3, <3>1, <3>2
  <2>2. UNCHANGED <<shown, exposed, image>>
    BY <1>3 DEF ChangeStatus, OpenTicket, BeginTicket, Begin, TicketStep, shopVars, deviceVars
  <2> QED BY <2>1, <2>2, ElsewhereKeepsImages
<1>4. ASSUME ProgressTicket(w) \/ ResolveTicket(w) \/ Fail(w) PROVE ImagesInv'
  <2>1. OthersStay(w) /\ Elsewhere(w)
    BY <1>0, <1>4, FinishesElsewhere, MovesElsewhere DEF ProgressTicket, ResolveTicket, Fail
  <2>2. UNCHANGED <<shown, exposed, image>>
    BY <1>4 DEF ProgressTicket, ResolveTicket, Fail, TicketStep, shopVars, deviceVars
  <2> QED BY <2>1, <2>2, ElsewhereKeepsImages
<1> QED
  BY <1>2, <1>3, <1>4, ImageRequestsBegin, SavingKeepsImages, CountUsesKeepsImages,
     DestroyImageKeepsImages
  DEF DeviceRequest

LEMMA NextKeepsImages == IInv /\ ImagesInv /\ [Next]_vars => ImagesInv'
<1> SUFFICES ASSUME IInv, ImagesInv, [Next]_vars PROVE ImagesInv'
  OBVIOUS
<1>1. ASSUME UNCHANGED <<req, shown, exposed, image>> PROVE ImagesInv'
  BY <1>1 DEF ImagesInv, ImagesTyped, ShownImagesAreStored, UnusedWhenCounted, Uploaded
<1>2. UNCHANGED vars \/ NextDay \/ (\E k \in Keys : Expire(k) /\ UNCHANGED <<shopVars, history>>)
        => UNCHANGED <<req, shown, exposed, image>>
  BY DEF Expire, NextDay, vars, shopVars, deviceVars
<1>3. ASSUME NEW i \in Images, UploadImage(i) PROVE ImagesInv'
  <2>1. UNCHANGED <<req, shown, exposed>> /\ image' = [image EXCEPT ![i] = "stored"]
    BY <1>3 DEF UploadImage, deviceVars
  <2>2. /\ image' \in [Images -> {"fresh", "stored", "deleted"}]
        /\ \A j : image[j] = "stored" => image'[j] = "stored"
        /\ Uploaded \subseteq Uploaded'
    BY <2>1 DEF ImagesInv, ImagesTyped, Uploaded
  <2>3. ImagesTyped'
    BY <2>1, <2>2 DEF ImagesInv, ImagesTyped
  <2> QED BY <2>1, <2>2, <2>3 DEF ImagesInv, ShownImagesAreStored, UnusedWhenCounted
<1>4. ASSUME Restart PROVE ImagesInv'
  BY <1>4 DEF Restart, ImagesInv, ImagesTyped, ShownImagesAreStored, UnusedWhenCounted, Uploaded,
              Idle, shopVars, deviceVars
<1> QED
  BY <1>1, <1>2, <1>3, <1>4, ReviewKeepsImages, CacheKeepsImages, DeviceKeepsImages DEF Next

(* An image is deleted only when no device shows it, unless a device was    *)
(* saved with it after its uses were counted: for every number of devices,  *)
(* of unchecked writes of their images, of failures and of restarts.        *)
THEOREM NoShownImageIsDeleted == Spec => []ShownImagesAreStored
<1>1. Init => ImagesInv
  <2> SUFFICES ASSUME Init PROVE ImagesInv
    OBVIOUS
  <2>1. /\ shown = [d \in Devices |-> IF d = TheDevice THEN FirstImages ELSE {}]
        /\ exposed = [d \in Devices |-> {}]
        /\ image = [i \in Images |-> IF i \in FirstImages THEN "stored" ELSE "fresh"]
        /\ FirstImages \subseteq Images
    BY StartsWithADevice DEF Init
  <2>2. req = [w \in Requests |-> Idle]
    BY DEF Init, CacheInit
  <2> QED BY <2>1, <2>2 DEF ImagesInv, ImagesTyped, ShownImagesAreStored, UnusedWhenCounted,
                            Uploaded, Idle
<1>2. ImagesInv => ShownImagesAreStored
  BY DEF ImagesInv
<1> QED BY <1>1, <1>2, NextKeepsImages, CatalogueTyped, PTL DEF Spec
=============================================================================
