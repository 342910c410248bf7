------------------------------ MODULE Catalogue ------------------------------
(***************************************************************************)
(* What the device lists show and who changes it: the reviews of one       *)
(* device and the rating computed from them (reviews.service.ts), the form *)
(* and the images of every device (devices.service.ts,                     *)
(* cloudinary-url.util.ts), tickets (maintenance.service.ts) and bookings. *)
(* Every change ends with an invalidation of DevicesCache.                 *)
(*                                                                         *)
(* A transaction reads what others have committed and its own row; a row   *)
(* it has written stays locked until it commits (READ COMMITTED).  Its     *)
(* written row is kept in req[w].row until then.                           *)
(***************************************************************************)
EXTENDS DevicesCache, FiniteSetsExt

CONSTANTS
  Devices,
  TheDevice,             \* the one that is there at the start, and is reviewed
  Ratings,               \* stars a review may give
  REVIEW_EDITS_PER_DAY,
  MIN_DEVICE_IMAGES,
  FirstRatings,          \* stars of the reviews edited once before, 0 for none
  FirstImages,           \* its images at the start
  MaxChanges,            \* bound of the changes that may be begun
  LastDay                \* bound of the clock, in days

ASSUME LimitsAreCounted ==
  /\ Ratings \subseteq Nat
  /\ {REVIEW_EDITS_PER_DAY, MIN_DEVICE_IMAGES} \subseteq Nat \ {0}
ASSUME StartsWithADevice ==
  /\ FirstRatings \in [Users -> Ratings \union {0}]
  /\ FirstImages \subseteq Images
  /\ TheDevice \in Devices

VARIABLES
  review,      \* the row of each customer's review of the device
  rating,      \* avg_rating and review_count of the device, as sum and count
  edits,       \* history: edits of a review since its edit day last changed
  today,       \* the shop's day
  device,      \* the row of each device: not yet there, listed or removed
  shown,       \* images of each device's row
  image,       \* Cloudinary: which images are there
  ticket,      \* maintenance tickets of the device
  changes,     \* number of requests to change something, for the bound
  restarted,   \* history: the process has been restarted
  exposed      \* history: images a row was saved with though they were deleted,
               \* or their deletion was decided

reviewVars == <<review, rating, edits, today>>
deviceVars == <<device, shown, exposed>>
shopVars == <<reviewVars, deviceVars, image, ticket>>
history == <<changes, restarted>>
vars == <<version, cacheVars, req, shopVars, history>>

Init ==
  /\ CacheInit
  /\ review = [u \in Users |-> IF FirstRatings[u] = 0 THEN NoReview
                             ELSE [NoReview EXCEPT !.exists = TRUE, !.id = 1,
                                                   !.rating = FirstRatings[u],
                                                   !.editDay = 1, !.editCount = 1]]
  /\ rating = [sum |-> MapThenSumSet(LAMBDA u : FirstRatings[u], Users),
               count |-> Cardinality({u \in Users : FirstRatings[u] # 0})]
  /\ edits = [u \in Users |-> review[u].editCount]
  /\ today = 1
  /\ device = [d \in Devices |-> IF d = TheDevice THEN "listed" ELSE "new"]
  /\ shown = [d \in Devices |-> IF d = TheDevice THEN FirstImages ELSE {}]
  /\ exposed = [d \in Devices |-> {}]
  /\ image = [i \in Images |-> IF i \in FirstImages THEN "stored" ELSE "fresh"]
  /\ ticket = [t \in Tickets |-> "absent"]
  /\ changes = 0
  /\ restarted = FALSE

(* There is room for a request that is going to change something. *)
Arrives(w) == req[w] = Idle /\ changes < MaxChanges

Begin(w, r) ==
  /\ changes' = changes + 1
  /\ req' = [req EXCEPT ![w] = r]
  /\ UNCHANGED <<version, cacheVars, shopVars, restarted>>

-----------------------------------------------------------------------------
(* Reviews *)

InTransaction(w) == req[w].pc \in {"aggregate", "rate"}
Unlocked(u) == \A w \in Requests : InTransaction(w) => req[w].user # u

DeviceExists == device[TheDevice] = "listed"

Visible(r) == r.exists /\ ~r.hidden /\ ~r.deleted

BeginReview(w, u, op, row, pc) ==
  Begin(w, [Idle EXCEPT !.op = op, !.pc = pc, !.user = u, !.row = row, !.seen = today])

(* create: no review of this customer, whether shown, hidden or removed *)
BeginCreate(w, u) ==
  /\ DeviceExists
  /\ ~review[u].exists
  /\ \E s \in Ratings :
       BeginReview(w, u, "create", [NoReview EXCEPT !.exists = TRUE, !.rating = s], "write")

(* update: of the author's own review that no moderator has removed *)
BeginEdit(w, u) ==
  /\ review[u].exists /\ ~review[u].deleted
  /\ \E s \in Ratings : BeginReview(w, u, "edit", [review[u] EXCEPT !.rating = s], "write")

(* remove, by the author *)
BeginRemove(w, u) ==
  /\ review[u].exists /\ ~review[u].deleted
  /\ BeginReview(w, u, "remove", review[u], "write")

BeginModerate(w, u) ==
  /\ review[u].exists /\ ~review[u].deleted
  /\ BeginReview(w, u, "moderate", review[u], "write")

BeginRestore(w, u) ==
  /\ review[u].exists /\ review[u].deleted
  /\ BeginReview(w, u, "restore", review[u], "write")

BeginVisibility(w, u) ==
  /\ review[u].exists /\ ~review[u].deleted
  /\ \E op \in {"hide", "show"} : BeginReview(w, u, op, review[u], "write")

Written(w, row) == req' = [req EXCEPT ![w].row = row, ![w].pc = "aggregate"]
ReviewStep == UNCHANGED <<version, cacheVars, shopVars, history>>

(* The unique key on customer and device refuses a second row, the foreign  *)
(* key one for a device that is gone.                                       *)
InsertReview(w) ==
  LET u == req[w].user IN
  /\ At(w, "create", "write")
  /\ Unlocked(u)
  /\ IF review[u].exists \/ ~DeviceExists THEN Finish(w)
     ELSE Written(w, [req[w].row EXCEPT !.id = review[u].id + 1])
  /\ ReviewStep

Editable(w, r) == r.exists /\ r.id = req[w].row.id /\ ~r.deleted
SameDay(w, r) == Editable(w, r) /\ r.editDay = req[w].seen /\ r.editCount < REVIEW_EDITS_PER_DAY
NewDay(w, r) == Editable(w, r) /\ r.editDay # req[w].seen

(* Mutant: the limit was checked on the row read before. *)
EditOverRead(w) ==
  LET r == review[req[w].user] IN
  /\ At(w, "edit", "write")
  /\ Unlocked(req[w].user)
  /\ IF Editable(w, r) /\ req[w].row.editDay = req[w].seen /\ req[w].row.editCount < REVIEW_EDITS_PER_DAY
       THEN Written(w, [r EXCEPT !.rating = req[w].row.rating,
                                 !.editCount = req[w].row.editCount + 1])
       ELSE Goto(w, "newDay")
  /\ ReviewStep

(* First UPDATE: another edit of the same day, if one is left.  A row that  *)
(* fails the condition is passed over without waiting for its lock.         *)
EditSameDay(w) ==
  LET r == review[req[w].user] IN
  /\ At(w, "edit", "write")
  /\ IF SameDay(w, r)
       THEN /\ Unlocked(req[w].user)
            /\ Written(w, [r EXCEPT !.rating = req[w].row.rating, !.editCount = @ + 1])
       ELSE Goto(w, "newDay")
  /\ ReviewStep

(* Mutant: the row is not asked whether a moderator has removed it since. *)
EditRemovedToo(w) ==
  LET r == review[req[w].user] IN
  /\ At(w, "edit", "newDay")
  /\ IF r.exists /\ r.id = req[w].row.id /\ r.editDay # req[w].seen
       THEN /\ Unlocked(req[w].user)
            /\ Written(w, [r EXCEPT !.rating = req[w].row.rating,
                                    !.editDay = req[w].seen, !.editCount = 1])
       ELSE Finish(w)
  /\ ReviewStep

(* Second UPDATE: the first edit of a day.  No row: too many edits. *)
EditNewDay(w) ==
  LET r == review[req[w].user] IN
  /\ At(w, "edit", "newDay")
  /\ IF NewDay(w, r)
       THEN /\ Unlocked(req[w].user)
            /\ Written(w, [r EXCEPT !.rating = req[w].row.rating,
                                    !.editDay = req[w].seen, !.editCount = 1])
       ELSE Finish(w)
  /\ ReviewStep

(* The other statements name the row by its id alone. *)
WriteById(w, op, row) ==
  LET r == review[req[w].user] IN
  /\ At(w, op, "write")
  /\ Unlocked(req[w].user)
  /\ IF r.exists /\ r.id = req[w].row.id THEN Written(w, row) ELSE Finish(w)
  /\ ReviewStep

RemoveReview(w) == WriteById(w, "remove", [NoReview EXCEPT !.id = review[req[w].user].id])
ModerateReview(w) == WriteById(w, "moderate", [review[req[w].user] EXCEPT !.deleted = TRUE])
RestoreReview(w) == WriteById(w, "restore", [review[req[w].user] EXCEPT !.deleted = FALSE])
SetVisibility(w) ==
  \/ WriteById(w, "hide", [review[req[w].user] EXCEPT !.hidden = TRUE])
  \/ WriteById(w, "show", [review[req[w].user] EXCEPT !.hidden = FALSE])

(* recalculateDeviceRating: what is committed by now, and the own row *)
Aggregate(w) ==
  LET row(u) == IF u = req[w].user THEN req[w].row ELSE review[u]
      seen == {u \in Users : Visible(row(u))} IN
  /\ req[w].pc = "aggregate"
  /\ req' = [req EXCEPT ![w].pc = "rate",
                        ![w].stats = [sum |-> MapThenSumSet(LAMBDA u : row(u).rating, seen),
                                      count |-> Cardinality(seen)]]
  /\ ReviewStep

(* The device is updated, and the transaction commits. *)
RateDevice(w) ==
  LET u == req[w].user IN
  /\ req[w].pc = "rate"
  /\ review' = [review EXCEPT ![u] = req[w].row]
  /\ rating' = req[w].stats
  /\ edits' = [edits EXCEPT ![u] = IF req[w].op # "edit" THEN IF req[w].row.exists THEN @ ELSE 0
                                   ELSE IF req[w].row.editDay = review[u].editDay THEN @ + 1
                                   ELSE 1]
  /\ version' = version + 1
  /\ Goto(w, "changed")
  /\ UNCHANGED <<cacheVars, today, deviceVars, image, ticket, history>>

-----------------------------------------------------------------------------
(* Devices *)

(* The row is saved with these images, whatever has become of them. *)
Doomed(i) == image[i] = "deleted" \/ \E v \in Requests : req[v].pc = "destroy" /\ i \in req[v].images
SaveRow(d, images) ==
  /\ shown' = [shown EXCEPT ![d] = images]
  /\ exposed' = [exposed EXCEPT ![d] = {i \in images : Doomed(i)}]

(* A request that is one write. *)
Change(w, op) ==
  /\ changes' = changes + 1
  /\ version' = version + 1
  /\ req' = [req EXCEPT ![w] = [Idle EXCEPT !.op = op, !.pc = "changed"]]
  /\ UNCHANGED <<cacheVars, restarted>>

(* A booking is started, returned, cancelled, swapped or lost: the status   *)
(* of its device.                                                           *)
ChangeStatus(w) ==
  /\ Change(w, "status")
  /\ UNCHANGED shopVars

Uploaded == {i \in Images : image[i] # "fresh"}
ImageSets == {images \in SUBSET Uploaded : Cardinality(images) >= MIN_DEVICE_IMAGES}

(* create: any images or none, unchecked *)
CreateDevice(w, d) ==
  /\ device[d] = "new"
  /\ device' = [device EXCEPT ![d] = "listed"]
  /\ \E images \in ImageSets \union {{}} : SaveRow(d, images)
  /\ Change(w, "form")
  /\ UNCHANGED <<reviewVars, image, ticket>>

(* update: other fields only, or any images too, unchecked *)
PatchDevice(w, d) ==
  /\ device[d] = "listed"
  /\ \/ UNCHANGED <<shown, exposed>>
     \/ \E images \in ImageSets : SaveRow(d, images)
  /\ Change(w, "form")
  /\ UNCHANGED <<reviewVars, device, image, ticket>>

(* images/upload: an image that no device shows yet *)
UploadImage(i) ==
  /\ image[i] = "fresh"
  /\ image' = [image EXCEPT ![i] = "stored"]
  /\ UNCHANGED <<version, cacheVars, req, reviewVars, deviceVars, ticket, history>>

(* replaceImages: any images of the shop's folder, in place of those read;  *)
(* of these and of the uploads given up, what is not kept is to be deleted. *)
BeginReplace(w, d) ==
  /\ device[d] = "listed"
  /\ \E kept \in ImageSets, discarded \in SUBSET (Uploaded \ shown[d]) :
       Begin(w, [Idle EXCEPT !.op = "replace", !.pc = "write", !.device = d, !.images = kept,
                             !.unused = (shown[d] \union discarded) \ kept])

(* addImages: the images read, and one just uploaded *)
BeginAdd(w, d) ==
  /\ device[d] = "listed"
  /\ \E i \in Images :
       /\ image[i] = "stored"
       /\ Begin(w, [Idle EXCEPT !.op = "add", !.pc = "write", !.device = d,
                                !.images = shown[d] \union {i}])

(* remove: the row, and then its images *)
BeginDrop(w, d) ==
  /\ device[d] = "listed"
  /\ Begin(w, [Idle EXCEPT !.op = "drop", !.pc = "write", !.device = d, !.unused = shown[d]])

(* The row is saved, unless it is gone by now. *)
SaveImages(w) ==
  /\ IF device[req[w].device] = "listed"
       THEN SaveRow(req[w].device, req[w].images) /\ version' = version + 1 /\ Goto(w, "changed")
       ELSE Finish(w) /\ UNCHANGED <<shown, exposed, version>>
  /\ UNCHANGED <<cacheVars, reviewVars, device, image, ticket, history>>

(* Mutant: the images are deleted before the row is saved. *)
CleanFirst(w) ==
  /\ At(w, "replace", "write")
  /\ IF req[w].unused = {} THEN SaveImages(w)
     ELSE /\ req' = [req EXCEPT ![w].unused = {}]
          /\ image' = [i \in Images |-> IF i \in req[w].unused THEN "deleted" ELSE image[i]]
          /\ UNCHANGED <<version, cacheVars, reviewVars, deviceVars, ticket, history>>

ReplaceImages(w) == At(w, "replace", "write") /\ SaveImages(w)
AddImages(w) == At(w, "add", "write") /\ SaveImages(w)

(* Rows that refer to the device keep it; a removal waits for the           *)
(* transactions that write its reviews.                                     *)
Referred(d) ==
  d = TheDevice /\ ((\E u \in Users : review[u].exists) \/ \E t \in Tickets : ticket[t] # "absent")

RemoveDevice(w) ==
  LET d == req[w].device IN
  /\ At(w, "drop", "write")
  /\ d = TheDevice => \A v \in Requests : ~InTransaction(v)
  /\ IF device[d] # "listed" \/ Referred(d)
       THEN Finish(w) /\ UNCHANGED <<deviceVars, version>>
       ELSE /\ device' = [device EXCEPT ![d] = "removed"]
            /\ SaveRow(d, {})
            /\ version' = version + 1
            /\ Goto(w, "changed")
  /\ UNCHANGED <<cacheVars, reviewVars, image, ticket, history>>

(* Mutant: only the first device is asked whether it shows the image. *)
CountFirstUses(w) ==
  /\ req[w].pc = "clean"
  /\ \E i \in req[w].unused :
       IF i \in shown[TheDevice]
         THEN Clean(w, req[w].unused \ {i})
         ELSE req' = [req EXCEPT ![w].pc = "destroy", ![w].images = {i},
                                 ![w].unused = @ \ {i}]
  /\ UNCHANGED <<version, cacheVars, shopVars, history>>

(* deleteDeviceImagesIfUnused, one image after the other: does any device   *)
(* show it?                                                                 *)
CountUses(w) ==
  /\ req[w].pc = "clean"
  /\ \E i \in req[w].unused :
       IF \E d \in Devices : i \in shown[d]
         THEN Clean(w, req[w].unused \ {i})
         ELSE req' = [req EXCEPT ![w].pc = "destroy", ![w].images = {i},
                                 ![w].unused = @ \ {i}]
  /\ UNCHANGED <<version, cacheVars, shopVars, history>>

(* A failure to delete is logged, and the next image taken. *)
DestroyImage(w) ==
  /\ req[w].pc = "destroy"
  /\ \/ image' = [i \in Images |-> IF i \in req[w].images THEN "deleted" ELSE image[i]]
     \/ UNCHANGED image
  /\ Clean(w, req[w].unused)
  /\ UNCHANGED <<version, cacheVars, reviewVars, deviceVars, ticket, history>>

-----------------------------------------------------------------------------
(* Tickets of the device *)

TicketIs(t, status) == ticket' = [ticket EXCEPT ![t] = status]
TicketStep == UNCHANGED <<cacheVars, reviewVars, deviceVars, image>>

(* create: the ticket and the device's status in one transaction *)
OpenTicket(w, t) ==
  /\ DeviceExists
  /\ ticket[t] = "absent"
  /\ TicketIs(t, "open")
  /\ Change(w, "ticket")
  /\ TicketStep

(* updateStatus reads the ticket, and writes what it decided. *)
BeginTicket(w, t) ==
  /\ ticket[t] \in {"open", "in_progress"}
  /\ \E op \in {"progress", "resolve"} :
       Begin(w, [Idle EXCEPT !.op = op, !.pc = "write", !.ticket = t])

ProgressTicket(w) ==
  /\ At(w, "progress", "write")
  /\ \E status \in {"open", "in_progress"} : TicketIs(req[w].ticket, status)
  /\ Finish(w)
  /\ TicketStep
  /\ UNCHANGED <<version, history>>

(* Mutant: the lists are left as they are. *)
ResolveQuietly(w) ==
  /\ At(w, "resolve", "write")
  /\ TicketIs(req[w].ticket, "resolved")
  /\ version' = version + 1
  /\ Finish(w)
  /\ TicketStep
  /\ UNCHANGED history

ResolveTicket(w) ==
  /\ At(w, "resolve", "write")
  /\ TicketIs(req[w].ticket, "resolved")
  /\ version' = version + 1
  /\ Goto(w, "changed")
  /\ TicketStep
  /\ UNCHANGED history

-----------------------------------------------------------------------------
(* An error or a lost connection: what is not committed is rolled back.     *)
Fail(w) ==
  /\ req[w].pc \in {"write", "newDay", "aggregate", "rate"}
  /\ Finish(w)
  /\ UNCHANGED <<version, cacheVars, shopVars, history>>

(* The process is restarted, once: requests and pending loads are gone.     *)
Restart ==
  /\ ~restarted
  /\ restarted' = TRUE
  /\ req' = [w \in Requests |-> Idle]
  /\ inFlight' = [k \in Keys |-> None]
  /\ generation' = 0
  /\ UNCHANGED <<version, redis, fence, shopVars, changes>>

NextDay ==
  /\ today < LastDay
  /\ today' = today + 1
  /\ UNCHANGED <<version, cacheVars, req, review, rating, edits, deviceVars, image, ticket, history>>

ReviewRequest(w) ==
  \/ Arrives(w) /\ \E u \in Users :
       \/ BeginCreate(w, u) \/ BeginEdit(w, u) \/ BeginRemove(w, u)
       \/ BeginModerate(w, u) \/ BeginRestore(w, u) \/ BeginVisibility(w, u)
  \/ InsertReview(w) \/ EditSameDay(w) \/ EditNewDay(w)
  \/ RemoveReview(w) \/ ModerateReview(w) \/ RestoreReview(w) \/ SetVisibility(w)
  \/ Aggregate(w) \/ RateDevice(w)

DeviceRequest(w) ==
  \/ /\ Arrives(w)
     /\ \/ ChangeStatus(w)
        \/ \E d \in Devices :
             \/ CreateDevice(w, d) \/ PatchDevice(w, d)
             \/ BeginReplace(w, d) \/ BeginAdd(w, d) \/ BeginDrop(w, d)
        \/ \E t \in Tickets : OpenTicket(w, t) \/ BeginTicket(w, t)
  \/ ReplaceImages(w) \/ AddImages(w) \/ RemoveDevice(w)
  \/ CountUses(w) \/ DestroyImage(w)
  \/ ProgressTicket(w) \/ ResolveTicket(w)

CacheRequest(w) == CacheStep(w) /\ UNCHANGED <<shopVars, history>>

Next ==
  \/ \E w \in Requests : ReviewRequest(w) \/ DeviceRequest(w) \/ CacheRequest(w) \/ Fail(w)
  \/ \E k \in Keys : Expire(k) /\ UNCHANGED <<shopVars, history>>
  \/ \E i \in Images : UploadImage(i)
  \/ Restart
  \/ NextDay

Spec == Init /\ [][Next]_vars

-----------------------------------------------------------------------------
(* No writer forgets the lists: between a change that they show and the     *)
(* invalidation that follows it, its request is under way, unless the       *)
(* process was stopped just then.                                           *)
EveryChangeInvalidates ==
  \/ version = fence
  \/ \E w \in Requests : req[w].pc = "changed"
  \/ restarted

(* Two edits sent together do not both take the last edit of a day.  (A     *)
(* request that was read before midnight and written after it starts the    *)
(* count again, so that the count is from one change of day to the next.)   *)
EditsPerDayBounded == \A u \in Users : edits[u] <= REVIEW_EDITS_PER_DAY

SameReview(r, s) ==
  s.exists /\ s.id = r.id /\ s.rating = r.rating /\ s.editDay = r.editDay /\ s.editCount = r.editCount
Commits(w, op, u) == At(w, op, "rate") /\ req[w].user = u

(* A review that a moderator has removed is kept as it was removed until a  *)
(* restore, though edits, moderations and changes of its visibility were    *)
(* under way: only a removal by its author, allowed before the moderator's, *)
(* takes the row away.                                                      *)
RemovedReviewIsKept ==
  [][\A u \in Users : review[u].exists /\ review[u].deleted =>
       \/ /\ SameReview(review[u], review'[u])
          /\ review'[u].deleted \/ \E w \in Requests : Commits(w, "restore", u)
       \/ ~review'[u].exists /\ \E w \in Requests : Commits(w, "remove", u)]_review

(* Every image that a device shows is there, whatever fails in between and  *)
(* whichever device shows it too, unless the row was saved when the image   *)
(* was already deleted, or found unused and about to be: an image is        *)
(* deleted after the rows that give it up, and only if no row has it.       *)
ShownImagesAreStored ==
  \A d \in Devices : \A i \in shown[d] : image[i] = "stored" \/ i \in exposed[d]

(* What the comments of recalculateDeviceRating say: the rating of a device *)
(* never differs from the reviews that are shown.                           *)
RatingMatchesReviews ==
  LET seen == {u \in Users : Visible(review[u])} IN
  rating = [sum |-> MapThenSumSet(LAMBDA u : review[u].rating, seen), count |-> Cardinality(seen)]
=============================================================================
