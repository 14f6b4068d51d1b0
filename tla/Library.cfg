CONSTANTS
  pid = pid
  eaa = eaa
  licence = licence
  part = part
  issuerKey = issuerKey
  name = name
  address = address
  street = street
  cars = cars
  model = model
  space = space
  rp1 = rp1
  rp2 = rp2
  age = age
  tag1 = tag1
  tag2 = tag2
  ministry = ministry
  agency = agency
  uri1 = uri1
  uri2 = uri2
  title = title
  label = label
  i1 = i1
  i2 = i2
  s1 = s1
  s2 = s2
  s3 = s3
  AnyItem = AnyItem
  Versions = {"1.0.0", "1.3.3"}
  ConfigIds = {pid, eaa, licence}
  PidIds = {pid}
  Includes <- MCIncludes
  FormatOf <- MCFormatOf
  ConfiguredClaims <- MCConfiguredClaims
  Requests <- MCRequests
  Identifiers = {"u1", "u2"}
  Grants <- MCGrants
  Statuses = {"200", "201", "202", "403", "404", "500"}
  Queries <- MCQueries
  IssuerKeys = {issuerKey}
  IssuedDocuments <- MCIssuedDocuments
  Items = {0}
  Parties = {rp1, rp2}
  PartyVersions = {"1.0.0", "1.3.3"}
  PartyStatuses = {"200", "400", "403", "500"}
  KeysOf <- MCKeysOf
  RequestObjects <- MCRequestObjects
  HeldCredentials <- MCHeldCredentials
  AskedCredentials <- MCAskedCredentials
  HardwareTags = {"k1", "k2"}
  AnchorKeys = {"t1"}
  CatVersions = {"1.0.0", "1.3.3"}
  Publications <- MCPublications
  Bundles <- MCBundles
  Scans = {"a", "b"}
  OfferVersions = {"1.0.0", "1.3.3"}
  Offers <- MCOffers
  Metadata <- MCMetadata
SPECIFICATION LibrarySpec
INVARIANTS
  LibraryTypeOK
  FailureExplained
  CredentialAuthorised
  ClaimsShown
  ResponseToClient
  RejectionClassified
  InstanceTruth
  CatalogueTrusted
  OfferHonoured
CHECK_DEADLOCK FALSE
