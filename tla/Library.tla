------------------------------- MODULE Library -------------------------------
(***************************************************************************)
(* The protocol machines of the library side by side: issuance,            *)
(* presentation, wallet provider, catalogue, offer.  They share the errors *)
(* and no variable, and no call of one reads what another keeps, so that   *)
(* their interleavings add nothing: a behaviour is a session of one.       *)
(***************************************************************************)
EXTENDS CodeFlow, RelyingParty, WalletProvider, Catalogue, Offer

VARIABLE session

libraryVars == <<session, flowVars, rpVars, wpVars, catVars, offerVars>>

LibraryInit ==
  /\ session \in {"issuance", "presentation", "provider", "catalogue", "offer"}
  /\ FlowInit /\ RelyingPartyInit /\ WalletProviderInit /\ CatalogueInit /\ OfferInit

Issues == session = "issuance" /\ FlowNext /\ UNCHANGED <<rpVars, wpVars, catVars, offerVars>>
Presents ==
  session = "presentation" /\ RelyingPartyNext /\ UNCHANGED <<flowVars, wpVars, catVars, offerVars>>
Provides ==
  session = "provider" /\ WalletProviderNext /\ UNCHANGED <<flowVars, rpVars, catVars, offerVars>>
Catalogues ==
  session = "catalogue" /\ CatalogueNext /\ UNCHANGED <<flowVars, rpVars, wpVars, offerVars>>
Offered == session = "offer" /\ OfferNext /\ UNCHANGED <<flowVars, rpVars, wpVars, catVars>>

LibraryNext ==
  (Issues \/ Presents \/ Provides \/ Catalogues \/ Offered) /\ UNCHANGED session

LibrarySpec == LibraryInit /\ [][LibraryNext]_libraryVars
-----------------------------------------------------------------------------
\* The codes of the errors of each party; the other errors have their class.
CodesOf(class) ==
  IF class = "IssuerResponseError" THEN IssuerResponseErrorCodes
  ELSE IF class = "WalletProviderResponseError" THEN WalletProviderResponseErrorCodes
  ELSE IF class = "RelyingPartyResponseError" THEN RelyingPartyResponseErrorCodes
  ELSE {class, "UnexpectedStatusCode"}

\* An error has a code of its class, the status of an answer or one that stands
\* for it, and a reason.
ErrorOK(error) ==
  /\ error = StatusError(error.class, error.code, error.status, error.reason)
  /\ error.code \in CodesOf(error.class)
  /\ error.status \in Statuses \cup PartyStatuses \cup
                      {"none", "200", "201", "400", "403", "404", "409", "500"}
  /\ error.reason \in {"none", "unspecified", "message", "valid", "malformed", "problem",
                       "invalidResponse"}

\* The classes of the errors that a caller of each machine has to foresee: the
\* errors of the SDK are among them only where nobody maps them.
IssuanceErrors ==
  {"IssuerResponseError", "UnexpectedStatusCodeError", "SdkUnexpectedStatusCode",
   "SdkValidationError", "ValidationFailed", "ZodError", "IoWalletError", "TypeError", "Error",
   "AuthorizationError", "AuthorizationIdpError", "Oauth2JwtVerifyError",
   "UnimplementedFeatureError",
   "MissingX509CertsError", "X509ValidationError"}
PresentationErrors ==
  {"RelyingPartyResponseError", "InvalidQRCodeError", "InvalidRequestObjectError",
   "IoWalletError", "MissingX509CertsError", "X509ValidationError", "CredentialsNotFoundError",
   "NoSuitableKeysFoundInEntityConfiguration", "TypeError"}
ProviderErrors ==
  {"WalletProviderResponseError", "IntegrityError", "ZodError", "TypeError", "Error"}
OfferErrors ==
  {"InvalidQRCodeError", "InvalidCredentialOfferError", "UnimplementedFeatureError",
   "IssuerResponseError", "SdkUnexpectedStatusCode", "TypeError", "Error"}

Foreseen(classes, error) == ErrorOK(error) /\ error.class \in classes \cup {"none"}

\* The types of the machines: where each one is, and the errors that it ends
\* with, each of a class that its callers foresee and with a code of its class.
LibraryTypeOK ==
  /\ step \in {"idle", "par", "authorize", "redirect", "present", "form", "token", "obtain",
               "credential", "verify", "done", "failed"}
  /\ token \in Grants \cup {{}} /\ issued.id \in (UNION Requests) \cup {"none"}
  /\ issued.identifier \in Identifiers \cup {"none"}
  /\ answered.status \in Statuses \cup {"none"}
  /\ rpStep \in {"idle", "request", "verify", "evaluate", "prepare", "send", "sent", "refused",
                 "failed"}
  /\ request \in RequestObjects \cup {NoRequest}
  /\ rpAnswered \in PartyStatuses \cup {"none", "lost"}
  /\ rpConf # NoConf =>
       rpConf.subject \in Parties /\ \E p \in Parties : rpConf.keys \subseteq KeysOf[p]
  /\ wpStep \in {"idle", "nonce", "integrity", "create", "sign", "attest", "attested", "failed"}
  /\ hardwareKeys \subseteq HardwareTags /\ known \in [HardwareTags -> {"absent", "valid", "revoked"}]
  /\ revision \in DOMAIN Publications /\ DOMAIN registries \subseteq RegistryNames
  /\ catStatus \in [catalogue : AsyncStatuses, translations : AsyncStatuses]
  /\ offerScreen \in {"closed", "open", "scanning"} /\ offerSlice.status \in AsyncStatuses
  /\ Foreseen(IssuanceErrors, failure) /\ Foreseen(PresentationErrors, rpFailure)
  /\ Foreseen(ProviderErrors, wpFailure)
  /\ \A t \in Scans : Foreseen(OfferErrors, offerThunk[t].error)
=============================================================================
