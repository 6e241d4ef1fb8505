SPECIFICATION BatchSpec
CONSTANTS
  alice = alice
  bob = bob
  corp = corp
  revs = revs
  susp = susp
  tok = tok
  Nothing = Nothing
  Refused = Refused
  Credentials <- Named
  Policies <- PolicyNamed
  Worlds <- WorldNamed
  Arguments <- Calls
  Issuers = {alice, bob, corp}
  Lists = {revs, susp}
  Tokens = {tok}
  Schemas <- SchemaUrls
  Purpose <- PurposeOf
  Publisher <- Signer
  Rotating = {alice}
  Fickle <- Changing
  Slot <- SlotOf
  Capacity = 12
  TokenBits = 2
  MaxBytes = 3
  MaxDepth = 2
  MaxChanges = 1
  MaxFaults = 1
INVARIANTS AcceptedIsSound SchemaIsVouchedFor RejectionsAreOwn ResolvedOnce
