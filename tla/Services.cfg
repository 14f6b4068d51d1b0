\* Status checks, trustmarks and the proximity screen, one service at a time.
CONSTANTS
  Types = {mDL}
  MaxSerial = 2
  MaxTime = 2
  Nothing = Nothing
  Checks = {c1, c2}
  Lifetime = 1
  Expiring = TRUE
  Thunks = {h1, h2}
  WiaLifetime = 1
  MaxWiaKeys = 2
  Mdl = mDL
  Tasks = {k1, k2}
  MaxMounts = 2
  MaxRequests = 2
SPECIFICATION Spec
INVARIANT ServicesTypeOK
INVARIANT StatusTimely
INVARIANT StatusOfCredential
INVARIANT CacheFailsNoCheck
INVARIANT TrustmarkVerifiable
INVARIANT ShownIsCurrent
INVARIANT UnmountCloses
PROPERTY CheckEnds
PROPERTY StartingEnds
