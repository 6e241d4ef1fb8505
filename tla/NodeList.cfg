SPECIFICATION McSpec
CONSTANTS
  Callers = {c1}
  Urls = {u, v}
  Allowed = {u}
  Answers <- Rotating
  Attempts = 3
  MaxSleep = 1
  Budget = 2
  CacheTtl = 1
  ValidUntil = 3
  MaxTime = 4
  None = None
  a = a
  b = b
  ann = ann
  bob = bob
  pilot = pilot
  Environment = pilot
  Absent = Absent
  Custodians = {ann, bob}
  Keyrings <- Rings
  Contents <- PilotOnly
  ListFloor = 1
  KeysFloor = 1
  MinThreshold = 1
  MaxAge = Absent
  Skew = 0
  Validity = 1
  Lead = 1
  Reissues = TRUE
  MaxKeys = 2
  MaxList = 2
  MaxRings = 2
  MaxSigs = 2
  MaxClock = 1
INVARIANTS DeadlineHolds ReachesEveryAddress SignedByAQuorum
PROPERTIES NothingPastExpiry EveryReadEnds NeverRollsBack CatchesUp
