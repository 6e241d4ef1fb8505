SPECIFICATION Spec
CONSTANTS
  None = None
  Default = Default
  Malformed = Malformed
  root = root
  listA = listA
  listB = listB
  Root = root
  Certs <- CertsAll
  Pool <- PoolAll
  Calls <- CallsAll
  WrongScheme = {"EUlistofthelists"}
  MaxLists = 2
  MaxChanges = 1
  MaxTime = 2
  Leeway = 0
  MaxValidity = 3
  AccessAnchors = {"aca"}
  Policies <- PoliciesAll
  Requests <- RequestsAll
  Leaves <- LeavesAll
INVARIANTS AnchorsAreVouchedFor EveryListIsAccountedFor ServedOnlyIfListed ReleasedOnlyAsRegistered
CHECK_DEADLOCK FALSE
