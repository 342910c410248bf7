\* Two requests at a time of a customer and others, two calls of one page.
SPECIFICATION Spec
CONSTANTS
  Workers = {w1, w2}
  Calls = {c1, c2}
  Page = Page
  Callers <- MCCallers
  u1 = u1
  u2 = u2
  google = google
  facebook = facebook
  Users <- MCUsers
  Staff = {}
  Providers <- MCProviders
  Identities <- MCIdentities
  Beginnings <- MCBeginnings
  None = None
  MaxRequests = 3
CHECK_DEADLOCK FALSE
INVARIANTS
  LastSignInStays
  ChangeEndsSessions
PROPERTIES
  RefreshTokenPresentedOnce
  EveryCallSettles
