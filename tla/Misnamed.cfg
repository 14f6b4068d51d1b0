\* A chain of a relying party that puts any name in its configuration.
CONSTANTS
  rp = rp
  other = other
  authority = authority
  anchor = anchor
  Entities = {rp, other, authority, anchor}
  Anchor = anchor
  NoEntity = NoEntity
  Superior <- ThreeLevels
  Regimes <- OnlyMisnamed
  MaxKeys = 2
  RelyingParty = rp
  NoList = NoList
  FederationList = {rp}
  Certified = {rp, other, authority, anchor}
  NoDocument = NoDocument
SPECIFICATION Spec
INVARIANT ChainAsDocumented
CHECK_DEADLOCK FALSE
