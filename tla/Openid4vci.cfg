SPECIFICATION Spec
CONSTANTS
  ann = ann
  bea = bea
  a1 = a1
  a2 = a2
  b1 = b1
  us = us
  them = them
  None = None
  Bad = Bad
  Wallets = {ann, bea}
  KeysOf <- KeysHeld
  AlgOf <- KeyAlg
  Enrolled <- Registry
  Offers <- OffersAll
  Us = us
  Calls <- CallsAll
  h1 = h1
  h2 = h2
  Handlers = {h1, h2}
  Nonces = {"n1", "n2"}
  Allowed = {"ES256"}
  MaxAge = 0
  Skew = 0
  MaxProofs = 2
  MaxTime = 1
SYMMETRY HandlerSymmetry
CHECK_DEADLOCK FALSE
INVARIANTS OneIssuancePerNonce OnlyProofsSpendANonce EveryKeyIsProven HonestRequestsAreServed
