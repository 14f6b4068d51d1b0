\* Every request of the relying party, against every content of the store.
CONSTANTS
  pidType = pidType
  licenceType = licenceType
  pid = pid
  licence = licence
  newLicence = newLicence
  copy = copy
  mdoc = mdoc
  pidPlace = pidPlace
  licencePlace = licencePlace
  otherPlace = otherPlace
  name = name
  address = address
  street = street
  position = position
  lat = lat
  lng = lng
  cars = cars
  Names = {name, address, street, position, lat, lng, cars}
  Indexes <- Positions
  AllElements = AllElements
  Credentials = {pid, licence, newLicence, copy, mdoc}
  Vct <- TypeOf
  Claims <- ClaimsOf
  Disclosable <- DisclosableOf
  SdJwt = {pid, licence, newLicence, copy}
  Presenters = {p1}
  Requests <- SomeRequests
  Places = {pidPlace, licencePlace, otherPlace}
  PidPlace = pidPlace
  Storable <- StorableIn
  NoCredential = NoCredential
  NoRequest = NoRequest
  NoSlot = NoSlot
SPECIFICATION Spec
INVARIANT PresentationTypeOK
INVARIANT NothingElseDisclosed
INVARIANT QueriesAnswered
INVARIANT RequiredAnswered
