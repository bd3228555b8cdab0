SPECIFICATION FairSpec
CONSTANTS
  Developer = {d1, d2}
  Pairing = {p1, p2}
  Claim = {c1, c2}
  Client = {x1, x2}
  None = None
INVARIANTS
  IdentityIsTheApprovers
  ConfigurationIsSound
PROPERTIES
  PairingsEnd
CHECK_DEADLOCK FALSE
