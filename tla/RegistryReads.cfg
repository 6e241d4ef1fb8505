SPECIFICATION McSpec
CONSTANTS
  ti = ti
  tao = tao
  other = other
  root = root
  t1 = t1
  t2 = t2
  Dids = {ti, tao, other, root}
  Anchors = {root}
  Issuers = {ti, root}
  Types = {t1, t2}
  Wanted <- BothTypes
  Catalogue <- NearMisses
  Registries <- AnyRecords
  Absent = Absent
  Badge = Badge
  None = None
  MaxRecord <- TwoForTheIssuer
  Depths = {2, 3}
  MaxChanges = 1
  p1 = p1
  p2 = p2
  p3 = p3
  Pages = {p1, p2, p3}
  Default = p1
  Off = Off
  Listing <- Both
  Attributes <- Four
  Book <- ThreePages
  Ends <- EndOf
  MaxPages = 3
  MaxItems = 5
  Missing = Missing
CHECK_DEADLOCK FALSE
INVARIANTS SoundChain NothingRevokedIsTrusted StaysOnInstance HonestIsComplete
PROPERTIES EveryBadgeEnds EveryWalkEnds
