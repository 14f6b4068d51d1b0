\* A chain is built, verified and renewed under every regime of key rollovers.
CONSTANTS
  rp = rp
  other = other
  authority = authority
  anchor = anchor
  Entities = {rp, other, authority, anchor}
  Anchor = anchor
  NoEntity = NoEntity
  Superior <- ThreeLevels
  Regimes <- SomeRegimes
  MaxKeys = 2
  RelyingParty = rp
  NoList = NoList
  FederationList = {rp}
  Certified = {rp, other, authority, anchor}
  NoDocument = NoDocument
SPECIFICATION FairSpec
INVARIANT AcceptedChainIsPath
INVARIANT BuiltChainConsistent
INVARIANT RenewedChainConsistent
PROPERTY TrustDecided
CHECK_DEADLOCK FALSE
