\* Two requests, each changing a review of the same device.
SPECIFICATION Spec
CONSTANTS
  Requests = {r1, r2}
  Keys = {k1}
  u1 = u1
  Users = {u1, u2}
  FirstRatings <- MCFirstRatings
  TheDevice = d1
  Devices = {d1, d2}
  Images = {i1, i2}
  FirstImages = {i1}
  Tickets = {t1}
  Ratings = {1, 5}
  REVIEW_EDITS_PER_DAY = 2
  MIN_DEVICE_IMAGES = 1
  MaxChanges = 2
  LastDay = 2
  None = None
SYMMETRY MCSymmetry
INVARIANT RatingMatchesReviews
