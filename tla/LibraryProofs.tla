---------------------------- MODULE LibraryProofs ----------------------------
(***************************************************************************)
(* Theorems about the machines of the library, for all versions, answers,  *)
(* documents, keys and offers.                                             *)
(***************************************************************************)
EXTENDS Library, TLAPS
LOCAL INSTANCE SequencesExt

(***************************************************************************)
(* The relying party of a presentation.                                    *)
(***************************************************************************)

\* What a verification leaves behind, by the version and the prefix.
Tied ==
  /\ qr.version = "1.0.0" =>
       /\ qr.prefix = "openid_federation"
       /\ request.signer \in rpConf.keys /\ request.iss = qr.client
       /\ qr.state \in {"none", request.state}
  /\ qr.prefix = "openid_federation" =>
       rpConf # NoConf /\ rpConf.subject = qr.client /\ request.client = qr.client
  /\ qr.prefix = "x509_hash" => request.signer.party = qr.client

\* The other prefixes are of 1.3.3, and nothing is posted before the
\* verification.
RelyingPartyInvariant ==
  /\ rpStep # "idle" /\ qr.version = "1.0.0" => qr.prefix = "openid_federation"
  /\ rpStep \in {"evaluate", "prepare", "send"} => Tied
  /\ rpStep \in {"idle", "request", "verify", "evaluate", "prepare", "send"} =>
       response = NoResponse
  /\ ResponseToClient

\* A request object that passes a verification is tied to the QR code.
LEMMA VerifiedIsTied ==
  ASSUME qr.version = "1.0.0" => qr.prefix = "openid_federation",
         IF qr.version = "1.0.0" THEN VerifyRequestObjectV1_0 = NoError
                                 ELSE VerifyRequestObjectV1_3 = NoError
  PROVE  Tied
<1>1. \A c \in {"IoWalletError", "InvalidRequestObjectError"} : Failure(c) # NoError
  BY DEF Failure, NoError, StatusError
<1>2. MapSdkRequestObjectError(Failure("SdkValidationError")) # NoError
  BY DEF MapSdkRequestObjectError, Failure, NoError, StatusError
<1>3. CASE qr.version = "1.0.0"
  BY <1>1, <1>3 DEF VerifyRequestObjectV1_0, InvalidRequestObject, IsClientIdMatch, Tied,
                    GetSigPublicKey
<1>4. CASE qr.version # "1.0.0"
  BY <1>1, <1>2, <1>4 DEF VerifyRequestObjectV1_3, InvalidRequestObject, IsClientIdMatch, Tied
<1> QED BY <1>3, <1>4

LEMMA RelyingPartyStep ==
  ASSUME RelyingPartyInvariant, RelyingPartyNext
  PROVE  RelyingPartyInvariant'
<1> USE DEF RelyingPartyInvariant, CallEnds
<1>1. ASSUME NEW v \in PartyVersions, NEW c \in Parties, NEW u \in BOOLEAN,
             NEW p \in {"openid_federation", "x509_hash", "other"}, NEW s \in {"none", "s1"},
             v = "1.0.0" => p = "openid_federation", StartFlowFromQR(v, c, p, s, u)
      PROVE  RelyingPartyInvariant'
  BY <1>1 DEF StartFlowFromQR, NoResponse, ResponseToClient, Tied
<1>2. ASSUME NEW p \in Parties, NEW o \in Parties, NEW uses \in {{"sig"}, {"sig", "enc"}},
             EvaluateRelyingPartyTrust(p, {k \in KeysOf[o] : k.use \in uses})
      PROVE  RelyingPartyInvariant'
  BY <1>2 DEF EvaluateRelyingPartyTrust, ResponseToClient, NoResponse
<1>3. ASSUME NEW a \in PartyAnswers, NEW o \in RequestObjects, GetRequestObject(a, o)
      PROVE  RelyingPartyInvariant'
  BY <1>3 DEF GetRequestObject, ResponseToClient, NoResponse
<1>4. ASSUME NEW a \in PostAnswers, SendAuthorizationResponse(a)
      PROVE  RelyingPartyInvariant'
  <2>1. CASE EncryptionKeys = {}
    BY <1>4, <2>1 DEF SendAuthorizationResponse, ResponseToClient, NoResponse
  <2>2. CASE EncryptionKeys # {}
    <3> DEFINE k == CHOOSE k \in EncryptionKeys : TRUE
    <3>1. rpStep' \in {"sent", "failed"} /\ UNCHANGED <<qr, rpConf, request, presented>>
      BY <1>4, <2>2 DEF SendAuthorizationResponse
    <3>2. response' = [kind |-> "response", uri |-> request.uri, state |-> request.state, key |-> k]
      BY <1>4, <2>2 DEF SendAuthorizationResponse
    <3>3. rpStep = "send" /\ Tied
      BY <1>4 DEF SendAuthorizationResponse
    <3>4. k \in ResponseKeys /\ k.use = "enc"
      BY <2>2 DEF EncryptionKeys
    <3> HIDE DEF k
    <3>5. ResponseToClient'
      BY <3>1, <3>2, <3>3, <3>4 DEF ResponseToClient, Tied, ResponseKeys
    <3> QED BY <3>1, <3>3, <3>5
  <2> QED BY <2>1, <2>2
<1>5. ASSUME NEW a \in PostAnswers, SendAuthorizationErrorResponse(a)
      PROVE  RelyingPartyInvariant'
  BY <1>5 DEF SendAuthorizationErrorResponse, ResponseToClient, NoResponse
<1>6. ASSUME NEW x \in {"none", "root", "other"}, VerifyAuthRequestCertificateChain(x, "root")
      PROVE  RelyingPartyInvariant'
  BY <1>6 DEF VerifyAuthRequestCertificateChain, ResponseToClient, NoResponse
<1>7. CASE VerifyRequestObject
  <2>1. rpStep' = "evaluate" => Tied
    BY <1>7, VerifiedIsTied DEF VerifyRequestObject
  <2> QED BY <1>7, <2>1 DEF VerifyRequestObject, ResponseToClient, Tied, NoResponse
<1>8. ASSUME NEW h \in HeldCredentials, NEW q \in AskedCredentials, EvaluateDcqlQuery(h, q)
      PROVE  RelyingPartyInvariant'
  BY <1>8 DEF EvaluateDcqlQuery, ResponseToClient, Tied, NoResponse
<1>9. CASE PrepareRemotePresentations
  BY <1>9 DEF PrepareRemotePresentations, ResponseToClient, Tied, NoResponse
<1> QED BY <1>1, <1>2, <1>3, <1>4, <1>5, <1>6, <1>7, <1>8, <1>9 DEF RelyingPartyNext

\* Whatever the relying parties answer, a response goes where the request
\* object says and is encrypted for the configuration in use; both are tied to
\* the QR code as its version and the prefix of its client id demand.
THEOREM RespondsToClient == LibrarySpec => []ResponseToClient
<1>1. LibraryInit => RelyingPartyInvariant
  BY DEF LibraryInit, RelyingPartyInit, RelyingPartyInvariant, ResponseToClient, NoResponse
<1>2. RelyingPartyInvariant /\ [LibraryNext]_libraryVars => RelyingPartyInvariant'
  <2> SUFFICES ASSUME RelyingPartyInvariant, [LibraryNext]_libraryVars
               PROVE  RelyingPartyInvariant'
    OBVIOUS
  <2>1. CASE Presents
    BY <2>1, RelyingPartyStep DEF Presents
  <2>2. CASE UNCHANGED rpVars
    BY <2>2 DEF rpVars, RelyingPartyInvariant, ResponseToClient, Tied
  <2> QED BY <2>1, <2>2 DEF LibraryNext, Issues, Provides, Catalogues, Offered, libraryVars
<1>3. RelyingPartyInvariant => ResponseToClient
  BY DEF RelyingPartyInvariant
<1> QED BY <1>1, <1>2, <1>3, PTL DEF LibrarySpec

(***************************************************************************)
(* The credential of an issuance.                                          *)
(***************************************************************************)

\* A document that a verification accepts, in either version.
Accepted(config, doc, holderKey, root) ==
  /\ doc.holder = holderKey
  /\ IF config.format = "mso_mdoc"
     THEN doc.signer = "leaf" /\ doc.x5c = root /\ root # "none"
     ELSE doc.signer \in IssuerKeys /\ ~doc.expired /\ doc.exp

LEMMA AcceptedSdJwt ==
  ASSUME NEW config, config.format # "mso_mdoc", NEW doc, NEW context, NEW root,
         VerifyAndParseCredentialSdJwt(config, IssuerKeys, doc, context, root).error = NoError
  PROVE  Accepted(config, doc, context.holderKey, "root")
<1> DEFINE verified == VerifyCredentialSdJwt(doc, IssuerKeys, context.holderKey)
           claims   == ParseCredentialSdJwt(config, doc.nodes, context)
<1>1. \A error : Rejected(error).error = error
  BY DEF Rejected
<1>2. \A c \in {"IoWalletError", "MissingX509CertsError"} : Failure(c) # NoError
  BY DEF Failure, NoError, StatusError
<1>3. verified = NoError /\ doc.exp
  <2> HIDE DEF verified, claims
  <2> QED BY <1>1, <1>2 DEF VerifyAndParseCredentialSdJwt, verified, claims
<1> QED BY <1>2, <1>3 DEF VerifyCredentialSdJwt, SdJwtInstanceVerifier, IsBound, Accepted

LEMMA AcceptedMDoc ==
  ASSUME NEW config, config.format = "mso_mdoc", NEW doc, NEW context, NEW root,
         VerifyAndParseCredentialMDoc(config, doc, context, root).error = NoError
  PROVE  Accepted(config, doc, context.holderKey, root)
<1>1. \A error : Rejected(error).error = error
  BY DEF Rejected
<1>2. \A c \in {"IoWalletError", "MissingX509CertsError", "X509ValidationError", "Error"} :
        Failure(c) # NoError
  BY DEF Failure, NoError, StatusError
<1>3. root # "none" /\ VerifyCredentialMDoc(doc, root, context.holderKey) = NoError
  BY <1>1, <1>2 DEF VerifyAndParseCredentialMDoc
<1>4. VerifyMdoc(doc, root) = NoError /\ doc.holder = context.holderKey
  BY <1>2, <1>3 DEF VerifyCredentialMDoc, IsBound
<1>5. doc.x5c = root /\ doc.signer = "leaf"
  BY <1>2, <1>4 DEF VerifyMdoc, VerifyX509Chain
<1> QED BY <1>3, <1>4, <1>5 DEF Accepted

LEMMA AcceptedCredential ==
  ASSUME NEW config, NEW doc, NEW context \in Contexts, NEW root \in {"none", "root"},
         \/ VerifyAndParseCredentialV1_0(config, IssuerKeys, doc, context, root).error = NoError
         \/ VerifyAndParseCredentialV1_3(config, IssuerKeys, doc, context, root).error = NoError
  PROVE  Accepted(config, doc, "holder", "root")
<1> DEFINE chained == [context EXCEPT !.validateChain = IF @ = "unset" THEN "yes" ELSE @]
<1>1. context.holderKey = "holder" /\ chained.holderKey = "holder"
  BY DEF Contexts
<1>2. Rejected(Failure("IoWalletError")).error # NoError
  BY DEF Rejected, Failure, NoError, StatusError
<1>3. CASE config.format = "mso_mdoc"
  <2>1. VerifyAndParseCredentialMDoc(config, doc, context, root).error = NoError
    BY <1>3 DEF VerifyAndParseCredentialV1_0, VerifyAndParseCredentialV1_3
  <2>2. Accepted(config, doc, "holder", root)
    BY <1>1, <1>3, <2>1, AcceptedMDoc
  <2> QED BY <1>3, <2>2 DEF Accepted
<1>4. CASE config.format = "dc+sd-jwt"
  <2>1. \/ VerifyAndParseCredentialSdJwt(config, IssuerKeys, doc, context, "none").error = NoError
        \/ VerifyAndParseCredentialSdJwt(config, IssuerKeys, doc, chained, root).error = NoError
    BY <1>4 DEF VerifyAndParseCredentialV1_0, VerifyAndParseCredentialV1_3
  <2> HIDE DEF chained
  <2>2. config.format # "mso_mdoc"
    BY <1>4
  <2> QED BY <1>1, <2>1, <2>2, AcceptedSdJwt
<1>5. CASE config.format \notin {"mso_mdoc", "dc+sd-jwt"}
  BY <1>2, <1>5 DEF VerifyAndParseCredentialV1_0, VerifyAndParseCredentialV1_3
<1> QED BY <1>3, <1>4, <1>5

\* The configuration in use, unless of a batch, is looked for in the token
\* before the credential is requested, and among those of the issuer before it
\* is verified.
Listed ==
  \E d \in token :
    d.configuration = issued.id /\ issued.identifier \in d.identifiers \cup {"none"}

FlowInvariant ==
  /\ issued = [id |-> issued.id, identifier |-> issued.identifier, batch |-> issued.batch,
               claims |-> issued.claims]
  /\ step \in {"credential", "verify", "done"} => issued.batch \/ Listed
  /\ step \in {"verify", "done"} => issued.id \in ConfigIds
  /\ CredentialAuthorised

LEMMA FlowStep ==
  ASSUME FlowInvariant, FlowNext
  PROVE  FlowInvariant'
<1> USE DEF FlowInvariant, EndsWith, Listed
<1>1. ASSUME NEW v \in Versions, NEW ids \in Requests, NEW p \in {"none", "mrtd-pop"},
             NEW s \in SUBSET {"query", "form_post.jwt"}, StartUserAuthorization(v, ids, p, s)
      PROVE  FlowInvariant'
  BY <1>1 DEF StartUserAuthorization, CredentialAuthorised
<1>2. CASE BuildAuthorizationUrl
  BY <1>2 DEF BuildAuthorizationUrl, CredentialAuthorised
<1>3. ASSUME NEW q \in Queries, \/ CompletePidUserAuthorizationWithQueryMode(q)
                                \/ ContinueWithMRTDPoPChallenge(q)
      PROVE  FlowInvariant'
  BY <1>3 DEF CompletePidUserAuthorizationWithQueryMode, ContinueWithMRTDPoPChallenge,
              CredentialAuthorised
<1>4. ASSUME NEW a \in Answers, \/ MakeParRequest(a) \/ PostResponseV1_0(a)
                                \/ \E q \in Queries : GetJwtFromFormPost(a, q)
                                \/ \E s \in IssuerKeys \cup {"other"} :
                                     \/ GetRequestedCredentialToBePresented(a, s)
                                     \/ CompleteWithFormPostJwtMode(a, s)
      PROVE  FlowInvariant'
  BY <1>4 DEF MakeParRequest, PostResponseV1_0, GetJwtFromFormPost, CredentialAuthorised,
              GetRequestedCredentialToBePresented, CompleteWithFormPostJwtMode
<1>5. ASSUME NEW a \in Answers, NEW r \in BOOLEAN, NEW f \in {"none", "client", "other"},
             NEW q \in Queries, CompleteEaaUserAuthorizationWithQueryMode(a, r, f, q)
      PROVE  FlowInvariant'
  BY <1>5 DEF CompleteEaaUserAuthorizationWithQueryMode, CredentialAuthorised
<1>6. ASSUME NEW a \in Answers, NEW d \in Grants, AuthorizeAccess(a, d)
      PROVE  FlowInvariant'
  BY <1>6 DEF AuthorizeAccess, CredentialAuthorised
<1>7. ASSUME NEW a \in Answers, NEW id \in UNION Requests,
             NEW i \in Identifiers \cup {"none"}, NEW b \in BOOLEAN, NEW w \in BOOLEAN,
             CreateNonceProof(id, i, b, w, a)
      PROVE  FlowInvariant'
  <2>1. /\ issued' = [id |-> id, identifier |-> i, batch |-> b, claims |-> issued.claims]
        /\ token' = token
    BY <1>7 DEF CreateNonceProof
  <2>2. /\ Failure("ValidationFailed") # NoError
        /\ Failure("UnimplementedFeatureError") # NoError
    BY DEF Failure, NoError, StatusError
  <2>3. step' = "failed" \/ (step' = "credential" /\ RequestForbidden(id, i, b, w) = NoError)
    BY <1>7 DEF CreateNonceProof
  <2>4. RequestForbidden(id, i, b, w) = NoError => b \/ ContainsCredentialDefinition(id, i)
    BY <2>2 DEF RequestForbidden
  <2>5. step' = "failed" \/ (step' = "credential" /\ (issued'.batch \/ Listed'))
    BY <2>1, <2>3, <2>4 DEF ContainsCredentialDefinition, Listed
  <2> QED BY <2>1, <2>5 DEF CredentialAuthorised
<1>8. ASSUME NEW a \in Answers, NEW n \in BOOLEAN, ObtainCredential(a, n)
      PROVE  FlowInvariant'
  <2>1. \A c \in {"IoWalletError", "TypeError"} : Failure(c) # NoError
    BY DEF Failure, NoError, StatusError
  <2>2. step = "credential" /\ UNCHANGED <<issued, token>>
    BY <1>8 DEF ObtainCredential
  <2>3. step' = "failed" \/ (step' = "verify" /\ CredentialMissing(n) = NoError)
    BY <1>8 DEF ObtainCredential
  <2>4. CredentialMissing(n) = NoError => issued.id \in ConfigIds
    BY <2>1 DEF CredentialMissing
  <2> QED BY <2>2, <2>3, <2>4 DEF CredentialAuthorised, Listed
<1>9. ASSUME step = "verify", NEW doc, NEW claims, NEW c \in Contexts, NEW root \in {"none", "root"},
             VerifyAndParseCredential(doc, claims, c, root)
      PROVE  FlowInvariant'
  <2> DEFINE config == [format |-> FormatOf[issued.id], claims |-> claims]
  <2>1. /\ step' \in {"done", "failed"} /\ token' = token /\ document' = doc
        /\ issued' = [id |-> issued.id, identifier |-> issued.identifier, batch |-> issued.batch,
                      claims |-> claims]
    BY <1>9 DEF VerifyAndParseCredential
  <2>2. step' = "done" =>
          \/ VerifyAndParseCredentialV1_0(config, IssuerKeys, doc, c, root).error = NoError
          \/ VerifyAndParseCredentialV1_3(config, IssuerKeys, doc, c, root).error = NoError
    BY <1>9 DEF VerifyAndParseCredential
  <2>3. step' = "done" => Accepted(config, doc, "holder", "root")
    BY <2>2, AcceptedCredential
  <2>4. issued'.batch \/ Listed'
    BY <1>9, <2>1 DEF Listed
  <2>5. CredentialAuthorised'
    BY <1>9, <2>1, <2>3, <2>4 DEF Accepted, CredentialAuthorised, Listed
  <2> QED BY <1>9, <2>1, <2>4, <2>5
<1> QED
  BY <1>1, <1>2, <1>3, <1>4, <1>5, <1>6, <1>7, <1>8, <1>9 DEF FlowNext

\* Whatever the issuer answers, a flow ends with a credential of a
\* configuration of the issuer, and of the token unless of a batch, bound to the
\* holder and signed by the issuer.
THEOREM ObtainsAuthorised == LibrarySpec => []CredentialAuthorised
<1>1. LibraryInit => FlowInvariant
  BY DEF LibraryInit, FlowInit, FlowInvariant, CredentialAuthorised, NotIssued
<1>2. FlowInvariant /\ [LibraryNext]_libraryVars => FlowInvariant'
  <2> SUFFICES ASSUME FlowInvariant, [LibraryNext]_libraryVars
               PROVE  FlowInvariant'
    OBVIOUS
  <2>1. CASE Issues
    BY <2>1, FlowStep DEF Issues
  <2>2. CASE UNCHANGED flowVars
    BY <2>2 DEF flowVars, FlowInvariant, CredentialAuthorised, Listed
  <2> QED BY <2>1, <2>2 DEF LibraryNext, Presents, Provides, Catalogues, Offered, libraryVars
<1>3. FlowInvariant => CredentialAuthorised
  BY DEF FlowInvariant
<1> QED BY <1>1, <1>2, <1>3, PTL DEF LibrarySpec

(***************************************************************************)
(* Offers.                                                                 *)
(***************************************************************************)

Resolved == {"grant", "trust", "validate", "issue", "done"}

\* What each step of a thunk has made sure of.
ThunkHonours(t) ==
  LET offer == offerThunk[t].offer
      conf  == issuerConf[t]
  IN  /\ offerThunk[t].at \in Resolved => offerThunk[t].version # "1.0.0"
      /\ offerThunk[t].at \in Resolved \ {"grant"} => offer.grant = "authorization_code"
      /\ offerThunk[t].at \in {"validate", "issue", "done"} =>
           \E described \in BOOLEAN :
             conf = MapToIssuerConfig(offer.issuer, offer.server, described)
      /\ offerThunk[t].at \in {"issue", "done"} =>
           ValidateCredentialOffer(offer, conf.servers) = NoError

SliceHonours ==
  offerSlice.status = "done" =>
    \E t \in Scans : offerThunk[t].at = "done" /\ offerThunk[t].offer = offerSlice.offer

IsThunk(r) == r = [at |-> r.at, version |-> r.version, offer |-> r.offer, error |-> r.error]

OfferTypes ==
  /\ DOMAIN offerThunk = Scans /\ DOMAIN issuerConf = Scans
  /\ \A t \in Scans : IsThunk(offerThunk[t])
  /\ offerSlice = [offer |-> offerSlice.offer, status |-> offerSlice.status]

OfferInvariant == OfferTypes /\ SliceHonours /\ \A t \in Scans : ThunkHonours(t)

\* A rejection of the thunk of one scan.
LEMMA RejectedOffer ==
  ASSUME OfferInvariant, NEW t \in Scans, offerThunk[t].at # "done",
         NEW error, OfferRejected(t, error), UNCHANGED issuerConf
  PROVE  OfferInvariant'
<1>1. /\ \A u \in Scans : u # t => offerThunk'[u] = offerThunk[u]
      /\ offerThunk'[t] = [offerThunk[t] EXCEPT !.at = "failed", !.error = error]
      /\ DOMAIN offerThunk' = Scans
      /\ offerSlice' = [offerSlice EXCEPT !.status = "error"]
  BY DEF OfferRejected, OfferInvariant, OfferTypes
<1>2. offerThunk'[t].at = "failed" /\ IsThunk(offerThunk'[t])
  BY <1>1 DEF OfferInvariant, OfferTypes, IsThunk
<1>3. OfferTypes'
  BY <1>1, <1>2 DEF OfferInvariant, OfferTypes
<1>4. offerSlice'.status = "error"
  BY <1>1 DEF OfferInvariant, OfferTypes
<1>5. ASSUME NEW u \in Scans PROVE ThunkHonours(u)'
  <2>1. ThunkHonours(u)
    BY DEF OfferInvariant
  <2>2. CASE u = t
    BY <1>2, <2>2 DEF ThunkHonours, Resolved
  <2>3. CASE u # t
    BY <1>1, <2>1, <2>3 DEF ThunkHonours
  <2> QED BY <2>2, <2>3
<1> QED BY <1>3, <1>4, <1>5 DEF OfferInvariant, SliceHonours

\* A step of the thunk of one scan that goes on.
LEMMA ContinuedOffer ==
  ASSUME OfferInvariant, NEW t \in Scans, offerThunk[t].at # "done",
         NEW next, OfferGoesOn(t, next),
         \A u \in Scans : u # t => issuerConf'[u] = issuerConf[u], DOMAIN issuerConf' = Scans,
         ThunkHonours(t)'
  PROVE  OfferInvariant'
<1>1. /\ \A u \in Scans : u # t => offerThunk'[u] = offerThunk[u]
      /\ offerThunk'[t] = [offerThunk[t] EXCEPT !.at = next]
      /\ DOMAIN offerThunk' = Scans
      /\ offerSlice' = offerSlice
  BY DEF OfferGoesOn, OfferInvariant, OfferTypes
<1>2. IsThunk(offerThunk'[t])
  BY <1>1 DEF OfferInvariant, OfferTypes, IsThunk
<1>3. OfferTypes'
  BY <1>1, <1>2 DEF OfferInvariant, OfferTypes
<1>4. SliceHonours'
  BY <1>1 DEF OfferInvariant, SliceHonours
<1>5. ASSUME NEW u \in Scans PROVE ThunkHonours(u)'
  BY <1>1 DEF ThunkHonours, OfferInvariant
<1> QED BY <1>3, <1>4, <1>5 DEF OfferInvariant

LEMMA OfferStep ==
  ASSUME OfferInvariant, OfferNext
  PROVE  OfferInvariant'
<1>1. CASE OpenOffers \/ OpenScanner
  BY <1>1 DEF OpenOffers, OpenScanner, OfferInvariant, OfferTypes, SliceHonours, ThunkHonours
<1>2. CASE CloseOffers \/ SessionResets
  BY <1>2 DEF CloseOffers, SessionResets, EmptySlice, OfferInvariant, OfferTypes, SliceHonours,
              ThunkHonours
<1>3. ASSUME NEW t \in Scans, NEW v \in OfferVersions, HandleCodeScanned(t, v)
      PROVE  OfferInvariant'
  <2>1. /\ offerThunk[t].at = "idle"
        /\ \A u \in Scans : u # t => offerThunk'[u] = offerThunk[u]
        /\ offerThunk'[t] = [offerThunk[t] EXCEPT !.at = "resolve", !.version = v]
        /\ DOMAIN offerThunk' = Scans
        /\ offerSlice' = [offerSlice EXCEPT !.status = "loading"]
        /\ issuerConf' = issuerConf
    BY <1>3 DEF HandleCodeScanned, OfferInvariant, OfferTypes
  <2>2. offerThunk'[t].at = "resolve" /\ IsThunk(offerThunk'[t])
    BY <2>1 DEF OfferInvariant, OfferTypes, IsThunk
  <2>3. offerSlice'.status = "loading"
    BY <2>1 DEF OfferInvariant, OfferTypes
  <2>4. OfferTypes'
    BY <2>1, <2>2 DEF OfferInvariant, OfferTypes
  <2>5. ASSUME NEW u \in Scans PROVE ThunkHonours(u)'
    BY <2>1, <2>2 DEF ThunkHonours, Resolved, OfferInvariant
  <2> QED BY <2>3, <2>4, <2>5 DEF OfferInvariant, SliceHonours
<1>4. ASSUME NEW t \in Scans, NEW offer \in Offers,
             NEW error \in {NoError, Failure("CredentialOfferError"), Failure("TypeError")},
             ResolveCredentialOffer(t, offer, error)
      PROVE  OfferInvariant'
  <2>1. offerThunk[t].at = "resolve" /\ issuerConf' = issuerConf
    BY <1>4 DEF ResolveCredentialOffer
  <2>2. CASE \E e : OfferRejected(t, e)
    BY <2>1, <2>2, RejectedOffer
  <2>3. CASE ~ \E e : OfferRejected(t, e)
    <3>1. /\ offerThunk[t].version # "1.0.0"
          /\ offerThunk' = [offerThunk EXCEPT ![t].at = "grant", ![t].offer = offer]
          /\ offerSlice' = offerSlice
      <4>1. Failure("UnimplementedFeatureError") # NoError
        BY DEF Failure, NoError, StatusError
      <4> QED BY <1>4, <2>3, <4>1 DEF ResolveCredentialOffer, Unimplemented
    <3>2. /\ \A u \in Scans : u # t => offerThunk'[u] = offerThunk[u]
          /\ offerThunk'[t] = [offerThunk[t] EXCEPT !.at = "grant", !.offer = offer]
          /\ DOMAIN offerThunk' = Scans
      BY <3>1 DEF OfferInvariant, OfferTypes
    <3>3. /\ offerThunk'[t].at = "grant" /\ offerThunk'[t].version # "1.0.0"
          /\ IsThunk(offerThunk'[t])
      BY <3>1, <3>2 DEF OfferInvariant, OfferTypes, IsThunk
    <3>4. OfferTypes'
      BY <2>1, <3>1, <3>2, <3>3 DEF OfferInvariant, OfferTypes
    <3>5. SliceHonours'
      BY <2>1, <3>1, <3>2 DEF OfferInvariant, SliceHonours
    <3>6. ASSUME NEW u \in Scans PROVE ThunkHonours(u)'
      BY <2>1, <3>2, <3>3 DEF ThunkHonours, Resolved, OfferInvariant
    <3> QED BY <3>4, <3>5, <3>6 DEF OfferInvariant
  <2> QED BY <2>2, <2>3
<1>5. ASSUME NEW t \in Scans, ValidateOffer(t)
      PROVE  OfferInvariant'
  <2>1. offerThunk[t].at = "validate" /\ issuerConf' = issuerConf
    BY <1>5 DEF ValidateOffer
  <2> DEFINE error == ValidateCredentialOffer(offerThunk[t].offer, issuerConf[t].servers)
  <2>2. CASE error # NoError
    BY <1>5, <2>1, <2>2, RejectedOffer DEF ValidateOffer, Continue
  <2>3. CASE error = NoError
    <3>1. OfferGoesOn(t, "issue")
      BY <1>5, <2>3 DEF ValidateOffer, Continue
    <3>2. offerThunk'[t] = [offerThunk[t] EXCEPT !.at = "issue"]
      BY <3>1 DEF OfferGoesOn, OfferInvariant, OfferTypes
    <3>3. /\ offerThunk'[t].at = "issue" /\ offerThunk'[t].offer = offerThunk[t].offer
          /\ offerThunk'[t].version = offerThunk[t].version
      BY <3>2 DEF OfferInvariant, OfferTypes, IsThunk
    <3>4. ThunkHonours(t)'
      BY <2>1, <2>3, <3>3 DEF ThunkHonours, Resolved, OfferInvariant
    <3> QED BY <2>1, <3>1, <3>4, ContinuedOffer DEF OfferInvariant, OfferTypes
  <2> QED BY <2>2, <2>3
<1>6. ASSUME NEW t \in Scans, NEW ready \in BOOLEAN, ExtractGrantDetails(t, ready)
      PROVE  OfferInvariant'
  <2> DEFINE error == IF ~ready THEN Failure("Error")
                      ELSE IF offerThunk[t].offer.grant = "authorization_code" THEN NoError
                      ELSE InvalidOffer(Failure("CredentialOfferError"))
  <2>1. offerThunk[t].at = "grant" /\ issuerConf' = issuerConf /\ Continue(t, error, "trust")
    BY <1>6 DEF ExtractGrantDetails
  <2>2. CASE error # NoError
    BY <2>1, <2>2, RejectedOffer DEF Continue
  <2>3. CASE error = NoError
    <3>1. OfferGoesOn(t, "trust")
      BY <2>1, <2>3 DEF Continue
    <3>2. offerThunk[t].offer.grant = "authorization_code"
      BY <2>3 DEF Failure, InvalidOffer, WithMappedErrors, InstanceOf, NoError, StatusError
    <3>3. offerThunk'[t] = [offerThunk[t] EXCEPT !.at = "trust"]
      BY <3>1 DEF OfferGoesOn, OfferInvariant, OfferTypes
    <3>4. /\ offerThunk'[t].at = "trust" /\ offerThunk'[t].offer = offerThunk[t].offer
          /\ offerThunk'[t].version = offerThunk[t].version
      BY <3>3 DEF OfferInvariant, OfferTypes, IsThunk
    <3>5. ThunkHonours(t)'
      BY <2>1, <3>2, <3>4 DEF ThunkHonours, Resolved, OfferInvariant
    <3> QED BY <2>1, <3>1, <3>5, ContinuedOffer DEF OfferInvariant, OfferTypes
  <2> QED BY <2>2, <2>3
<1>7. ASSUME NEW t \in Scans, NEW obtained \in BOOLEAN, NEW described \in BOOLEAN,
             EvaluateIssuerTrust(t, obtained, described)
      PROVE  OfferInvariant'
  <2>1. offerThunk[t].at = "trust"
    BY <1>7 DEF EvaluateIssuerTrust
  <2>2. CASE ~obtained
    BY <1>7, <2>1, <2>2, RejectedOffer DEF EvaluateIssuerTrust
  <2>3. CASE obtained
    <3> DEFINE conf == MapToIssuerConfig(offerThunk[t].offer.issuer, offerThunk[t].offer.server,
                                         described)
    <3>1. OfferGoesOn(t, "validate") /\ issuerConf' = [issuerConf EXCEPT ![t] = conf]
      BY <1>7, <2>3 DEF EvaluateIssuerTrust
    <3>2. offerThunk'[t] = [offerThunk[t] EXCEPT !.at = "validate"]
      BY <3>1 DEF OfferGoesOn, OfferInvariant, OfferTypes
    <3>3. /\ offerThunk'[t].at = "validate" /\ offerThunk'[t].offer = offerThunk[t].offer
          /\ offerThunk'[t].version = offerThunk[t].version
      BY <3>2 DEF OfferInvariant, OfferTypes, IsThunk
    <3>4. /\ issuerConf'[t] = conf /\ DOMAIN issuerConf' = Scans
          /\ \A u \in Scans : u # t => issuerConf'[u] = issuerConf[u]
      BY <3>1 DEF OfferInvariant, OfferTypes
    <3>5. ThunkHonours(t)'
      BY <2>1, <3>3, <3>4 DEF ThunkHonours, Resolved, OfferInvariant, MapToIssuerConfig
    <3> QED BY <2>1, <3>1, <3>4, <3>5, ContinuedOffer
  <2> QED BY <2>2, <2>3
<1>8. ASSUME NEW t \in Scans, NEW done \in BOOLEAN, IssuanceEnds(t, done)
      PROVE  OfferInvariant'
  <2>1. offerThunk[t].at = "issue" /\ issuerConf' = issuerConf
    BY <1>8 DEF IssuanceEnds
  <2>2. CASE ~done
    BY <1>8, <2>1, <2>2, RejectedOffer DEF IssuanceEnds
  <2>3. CASE done
    <3>1. /\ offerThunk' = [offerThunk EXCEPT ![t].at = "done"]
          /\ offerSlice' = [offer |-> offerThunk[t].offer, status |-> "done"]
      BY <1>8, <2>3 DEF IssuanceEnds
    <3>2. /\ \A u \in Scans : u # t => offerThunk'[u] = offerThunk[u]
          /\ offerThunk'[t] = [offerThunk[t] EXCEPT !.at = "done"]
          /\ DOMAIN offerThunk' = Scans
      BY <3>1 DEF OfferInvariant, OfferTypes
    <3>3. /\ offerThunk'[t].at = "done" /\ offerThunk'[t].offer = offerThunk[t].offer
          /\ offerThunk'[t].version = offerThunk[t].version /\ IsThunk(offerThunk'[t])
      BY <3>2 DEF OfferInvariant, OfferTypes, IsThunk
    <3>4. OfferTypes'
      BY <2>1, <3>1, <3>2, <3>3 DEF OfferInvariant, OfferTypes
    <3>5. SliceHonours'
      BY <3>1, <3>3 DEF SliceHonours
    <3>6. ASSUME NEW u \in Scans PROVE ThunkHonours(u)'
      <4>1. ThunkHonours(u)
        BY DEF OfferInvariant
      <4>2. CASE u = t
        BY <2>1, <3>3, <4>1, <4>2 DEF ThunkHonours, Resolved
      <4>3. CASE u # t
        BY <2>1, <3>2, <4>1, <4>3 DEF ThunkHonours
      <4> QED BY <4>2, <4>3
    <3> QED BY <3>4, <3>5, <3>6 DEF OfferInvariant
  <2> QED BY <2>2, <2>3
<1> QED BY <1>1, <1>2, <1>3, <1>4, <1>5, <1>6, <1>7, <1>8 DEF OfferNext

\* An offer that passes the validation selects a server that is advertised, if
\* there is any, and none only if there are not several.
LEMMA ValidatedServer ==
  ASSUME NEW offer, NEW servers, ValidateCredentialOffer(offer, servers) = NoError
  PROVE  /\ servers # {} => offer.server \in servers \cup {"none"}
         /\ (\E a, b \in servers : a # b) => offer.server \in servers
  BY DEF ValidateCredentialOffer, InvalidOffer, WithMappedErrors, InstanceOf, Failure, NoError,
         StatusError

\* Whatever is scanned, and however thunks, scans and resets interleave, the
\* issuances are those of the offers, of the issuer they name: at its own server
\* or at the one selected, which is advertised when the issuer advertises any.
THEOREM HonoursOffers == LibrarySpec => []OfferHonoured
<1>1. LibraryInit => OfferInvariant
  BY DEF LibraryInit, OfferInit, OfferInvariant, OfferTypes, SliceHonours, ThunkHonours, Resolved,
         NotScanned, EmptySlice, IsThunk
<1>2. OfferInvariant /\ [LibraryNext]_libraryVars => OfferInvariant'
  <2> SUFFICES ASSUME OfferInvariant, [LibraryNext]_libraryVars
               PROVE  OfferInvariant'
    OBVIOUS
  <2>1. CASE Offered
    BY <2>1, OfferStep DEF Offered
  <2>2. CASE UNCHANGED offerVars
    BY <2>2 DEF offerVars, OfferInvariant, OfferTypes, SliceHonours, ThunkHonours
  <2> QED BY <2>1, <2>2 DEF LibraryNext, Issues, Presents, Provides, Catalogues, libraryVars
<1>3. OfferInvariant => OfferHonoured
  <2> SUFFICES ASSUME OfferInvariant, NEW t \in Scans, offerThunk[t].at \in {"issue", "done"}
               PROVE  LET offer == offerThunk[t].offer
                          conf  == issuerConf[t]
                          own   == Metadata[offer.issuer].own
                      IN  /\ offer.grant = "authorization_code" /\ offerThunk[t].version # "1.0.0"
                          /\ conf.issuer = offer.issuer
                          /\ conf.server \in {own, offer.server}
                          /\ offer.server = "none" => conf.server = own
                          /\ conf.servers # {} => conf.server \in conf.servers \cup {own}
                          /\ (\E a, b \in conf.servers : a # b) => offer.server \in conf.servers
    BY DEF OfferHonoured, OfferInvariant, SliceHonours
  <2> DEFINE offer == offerThunk[t].offer
             conf  == issuerConf[t]
             own   == Metadata[offer.issuer].own
  <2>1. /\ \E described \in BOOLEAN :
             conf = MapToIssuerConfig(offer.issuer, offer.server, described)
        /\ ValidateCredentialOffer(offer, conf.servers) = NoError
        /\ offer.grant = "authorization_code" /\ offerThunk[t].version # "1.0.0"
    BY DEF OfferInvariant, ThunkHonours, Resolved
  <2>2. /\ conf.issuer = offer.issuer /\ conf.server \in {own, offer.server}
        /\ offer.server = "none" => conf.server = own
    BY <2>1 DEF MapToIssuerConfig
  <2>3. /\ conf.servers # {} => offer.server \in conf.servers \cup {"none"}
        /\ (\E a, b \in conf.servers : a # b) => offer.server \in conf.servers
    BY <2>1, ValidatedServer
  <2> HIDE DEF offer, conf, own
  <2>4. conf.servers # {} => conf.server \in conf.servers \cup {own}
    BY <2>2, <2>3
  <2> QED BY <2>1, <2>2, <2>3, <2>4 DEF offer, conf, own
<1> QED BY <1>1, <1>2, <1>3, PTL DEF LibrarySpec

(***************************************************************************)
(* The catalogue.                                                          *)
(***************************************************************************)

SignedBy(signer) == signer \in AnchorKeys \cup {"json"}

\* Of the registries of a fetch, those that are not waited for have come, and
\* that of the credentials was verified or is JSON.
CatalogueInvariant ==
  /\ fetching = [version |-> fetching.version, waits |-> fetching.waits]
  /\ fetching.waits \cap RegistryNames # {} =>
       \A n \in RegistryNames \ fetching.waits : n \in DOMAIN registries
  /\ "credential_catalog" \in DOMAIN registries => SignedBy(registries["credential_catalog"].signer)
  /\ CatalogueTrusted

\* A catalogue that could be mapped comes from its registries.
LEMMA MappedCatalogue ==
  ASSUME NEW fetched, MapToCredentialsCatalogue(fetched).error = NoError
  PROVE  \A c \in MapToCredentialsCatalogue(fetched).catalogue.credentials :
           /\ \E p \in Published(fetched, "credential_catalog").credentials :
                c.type = p.credential_type /\ c.sources = p.authentic_sources
           /\ c.formats # {}
           /\ c.sources \subseteq Published(fetched, "authentic_sources").entities
<1> DEFINE credentials == Published(fetched, "credential_catalog").credentials
           schemas     == Published(fetched, "schema_registry").schemas
           entities    == Published(fetched, "authentic_sources").entities
           resolved(c) == ResolveAuthSources(c, entities) = NoError /\ ResolveFormats(c, schemas) # {}
<1>1. Failure("IoWalletError") # NoError
  BY DEF Failure, NoError, StatusError
<1>2. \A c \in credentials : resolved(c)
  BY <1>1 DEF MapToCredentialsCatalogue
<1>3. MapToCredentialsCatalogue(fetched).catalogue.credentials =
        {[type |-> c.credential_type, sources |-> c.authentic_sources,
          formats |-> ResolveFormats(c, schemas)] : c \in credentials}
  BY <1>2 DEF MapToCredentialsCatalogue
<1>4. \A c \in credentials : c.authentic_sources \subseteq entities
  BY <1>1, <1>2 DEF ResolveAuthSources
<1> HIDE DEF credentials, schemas, entities
<1>5. \A c \in credentials : ResolveFormats(c, schemas) # {}
  BY <1>2
<1> QED BY <1>3, <1>4, <1>5 DEF credentials, entities

LEMMA RejectedCatalogue ==
  ASSUME Rejects
  PROVE  CatalogueInvariant'
BY DEF Rejects, CatalogueInvariant, CatalogueTrusted, NoFetch, RegistryNames

LEMMA CatalogueStep ==
  ASSUME CatalogueInvariant, CatalogueNext
  PROVE  CatalogueInvariant'
<1>1. CASE Publish
  BY <1>1 DEF Publish, CatalogueInvariant, CatalogueTrusted, Published
<1>2. ASSUME NEW v \in CatVersions, GetCredentialsCatalogue(v)
      PROVE  CatalogueInvariant'
  BY <1>2 DEF GetCredentialsCatalogue, CatalogueInvariant, CatalogueTrusted, Published,
              RegistryNames
<1>3. ASSUME NEW v \in CatVersions, GetTranslations(v)
      PROVE  CatalogueInvariant'
  BY <1>3 DEF GetTranslations, CatalogueInvariant, CatalogueTrusted, Published
<1>4. ASSUME NEW b \in BOOLEAN, AnchorAnswers(b)
      PROVE  CatalogueInvariant'
  <2>1. CASE b
    BY <1>4, <2>1 DEF AnchorAnswers, CatalogueInvariant, CatalogueTrusted, Published, RegistryNames
  <2> QED BY <1>4, <2>1, RejectedCatalogue DEF AnchorAnswers
<1>5. ASSUME NEW b \in BOOLEAN, TranslationsAnswered("it", b)
      PROVE  CatalogueInvariant'
  BY <1>5 DEF TranslationsAnswered, CatalogueInvariant, CatalogueTrusted, Published
<1>6. ASSUME NEW a \in RegistryAnswers, DiscoveryAnswers(a)
      PROVE  CatalogueInvariant'
  <2>1. CASE FetchRegistry(FALSE, a) = NoError
    BY <1>6, <2>1 DEF DiscoveryAnswers, CatalogueInvariant, CatalogueTrusted, Published
  <2> QED BY <1>6, <2>1, RejectedCatalogue DEF DiscoveryAnswers
<1>7. ASSUME NEW a \in RegistryAnswers, DocumentAnswers(a)
      PROVE  CatalogueInvariant'
  <2>1. CASE a.status = "200" /\ a.signer \in AnchorKeys /\ a.body = "valid"
    <3> DEFINE fetched == [credential_catalog |-> [signer |-> a.signer, revision |-> revision]]
               mapped  == MapToCredentialsCatalogueV1_0(Publications[revision])
    <3>1. Fulfils(mapped, fetched)
      BY <1>7, <2>1 DEF DocumentAnswers
    <3>2. /\ "schema_registry" \notin DOMAIN fetched
          /\ fetched["credential_catalog"].signer = a.signer
          /\ fetched["credential_catalog"].revision = revision
      OBVIOUS
    <3>3. \A c \in mapped.credentials :
            \E p \in Publications[revision]["credential_catalog"].credentials :
              c.type = p.credential_type /\ c.sources = p.authentic_sources
      BY DEF MapToCredentialsCatalogueV1_0
    <3> HIDE DEF fetched, mapped
    <3>4. catalogue' = mapped /\ sources' = fetched /\ fetching' = NoFetch /\ registries' = <<>>
      BY <3>1 DEF Fulfils
    <3>5. CatalogueTrusted'
      BY <2>1, <3>2, <3>3, <3>4 DEF CatalogueTrusted, Published
    <3> QED BY <3>4, <3>5 DEF CatalogueInvariant, NoFetch, RegistryNames
  <2> QED BY <1>7, <2>1, RejectedCatalogue DEF DocumentAnswers
<1>8. ASSUME NEW a \in RegistryAnswers, NEW name \in RegistryNames, RegistryAnswered(name, a)
      PROVE  CatalogueInvariant'
  <2> DEFINE signer  == IF a.type = "json" THEN "json" ELSE a.signer
             fetched == [n \in DOMAIN registries \cup {name} |->
                           IF n = name THEN [signer |-> signer, revision |-> revision]
                                       ELSE registries[n]]
             mapped  == MapToCredentialsCatalogue(fetched)
             error   == FetchRegistry(name # "credential_catalog", a)
  <2>1. name \in fetching.waits
    BY <1>8 DEF RegistryAnswered
  <2>2. CASE error # NoError \/ (fetching.waits = {name} /\ mapped.error # NoError)
    <3>1. Rejects
      BY <1>8, <2>2 DEF RegistryAnswered
    <3> QED BY <3>1, RejectedCatalogue
  <2>3. ASSUME error = NoError
        PROVE  /\ "credential_catalog" \in DOMAIN fetched =>
                    SignedBy(fetched["credential_catalog"].signer)
               /\ DOMAIN fetched = DOMAIN registries \cup {name}
    <3>1. ASSUME name = "credential_catalog" PROVE SignedBy(signer)
      <4>1. a.type \in {"json", "jwt", "other"}
        BY DEF RegistryAnswers
      <4>2. \A c \in {"IoWalletError", "ZodError"} : Failure(c) # NoError
        BY DEF Failure, NoError, StatusError
      <4>3. FetchRegistry(FALSE, a) = NoError
        BY <2>3, <3>1
      <4>4. a.type = "json" \/ (a.type = "jwt" /\ a.signer \in AnchorKeys)
        <5> DEFINE status == HasStatusOrThrow("200", "UnexpectedStatusCodeError", a)
        <5> HIDE DEF status
        <5>1. status = NoError
          BY <4>2, <4>3 DEF FetchRegistry, status
        <5> QED BY <4>1, <4>2, <4>3, <5>1 DEF FetchRegistry, status
      <4> QED BY <4>4 DEF SignedBy
    <3> HIDE DEF signer
    <3> QED BY <3>1 DEF CatalogueInvariant
  <2>4. CASE error = NoError /\ fetching.waits # {name}
    <3>1. /\ registries' = fetched /\ fetching' = [fetching EXCEPT !.waits = @ \ {name}]
          /\ UNCHANGED <<catalogue, sources>>
      BY <1>8, <2>4 DEF RegistryAnswered
    <3>2. /\ fetching'.waits = fetching.waits \ {name}
          /\ fetching' = [version |-> fetching'.version, waits |-> fetching'.waits]
      BY <3>1 DEF CatalogueInvariant
    <3>3. \A n \in RegistryNames \ fetching'.waits : n \in DOMAIN registries'
      BY <2>1, <2>3, <2>4, <3>1, <3>2 DEF CatalogueInvariant
    <3>4. "credential_catalog" \in DOMAIN registries' =>
            SignedBy(registries'["credential_catalog"].signer)
      BY <2>3, <2>4, <3>1
    <3>5. CatalogueTrusted'
      BY <3>1, <1>8 DEF RegistryAnswered, CatalogueInvariant, CatalogueTrusted, Published
    <3> QED BY <3>2, <3>3, <3>4, <3>5 DEF CatalogueInvariant, SignedBy
  <2>5. CASE error = NoError /\ fetching.waits = {name} /\ mapped.error = NoError
    <3>1. Fulfils(mapped.catalogue, fetched)
      BY <1>8, <2>5 DEF RegistryAnswered
    <3>2. "credential_catalog" \in DOMAIN fetched
      BY <2>1, <2>3, <2>5 DEF CatalogueInvariant, RegistryNames
    <3>3. SignedBy(fetched["credential_catalog"].signer)
      BY <2>3, <2>5, <3>2
    <3> HIDE DEF fetched
    <3>4. \A c \in mapped.catalogue.credentials :
            /\ \E p \in Published(fetched, "credential_catalog").credentials :
                 c.type = p.credential_type /\ c.sources = p.authentic_sources
            /\ c.formats # {}
            /\ c.sources \subseteq Published(fetched, "authentic_sources").entities
      BY <2>5, MappedCatalogue
    <3> HIDE DEF mapped
    <3>5. /\ catalogue' = mapped.catalogue /\ sources' = fetched
          /\ fetching' = NoFetch /\ registries' = <<>>
      BY <3>1 DEF Fulfils
    <3>6. CatalogueTrusted'
      BY <3>3, <3>4, <3>5 DEF CatalogueTrusted, Published, SignedBy
    <3> QED BY <3>5, <3>6 DEF CatalogueInvariant, NoFetch, RegistryNames
  <2> QED BY <2>2, <2>4, <2>5
<1> QED BY <1>1, <1>2, <1>3, <1>4, <1>5, <1>6, <1>7, <1>8 DEF CatalogueNext

\* In whatever revisions and order the registries answer, the catalogue of the
\* store is one that was verified or served as JSON, and closed under its
\* references.
THEOREM TrustsCatalogue == LibrarySpec => []CatalogueTrusted
<1>1. LibraryInit => CatalogueInvariant
  BY DEF LibraryInit, CatalogueInit, CatalogueInvariant, CatalogueTrusted, NoFetch, RegistryNames
<1>2. CatalogueInvariant /\ [LibraryNext]_libraryVars => CatalogueInvariant'
  <2> SUFFICES ASSUME CatalogueInvariant, [LibraryNext]_libraryVars
               PROVE  CatalogueInvariant'
    OBVIOUS
  <2>1. CASE Catalogues
    BY <2>1, CatalogueStep DEF Catalogues
  <2>2. CASE UNCHANGED catVars
    BY <2>2 DEF catVars, CatalogueInvariant, CatalogueTrusted, Published
  <2> QED BY <2>1, <2>2 DEF LibraryNext, Issues, Presents, Provides, Offered, libraryVars
<1>3. CatalogueInvariant => CatalogueTrusted
  BY DEF CatalogueInvariant
<1> QED BY <1>1, <1>2, <1>3, PTL DEF LibrarySpec

(***************************************************************************)
(* The answers of a relying party.                                         *)
(***************************************************************************)

\* What an error of the relying party says.
PartyError(error, code, status) ==
  error.class = "RelyingPartyResponseError" /\ error.code = code /\ error.status = status

\* An answer to a request object or a refusal that is not a success.
LEMMA GenericError ==
  ASSUME NEW a, a.status # "200"
  PROVE  /\ PartyError(HasStatusOrThrow("200", "RelyingPartyResponseError", a),
                       "RelyingPartyGenericError", a.status)
         /\ PartyError(MapSdkFetchAuthRequestError(
                         HasStatusOrThrow("200", "SdkUnexpectedStatusCode", a)),
                       "RelyingPartyGenericError", a.status)
BY DEF PartyError, HasStatusOrThrow, UnexpectedStatus, StatusError, DefaultCode,
       MapSdkFetchAuthRequestError, ToRelyingPartyResponseError

\* The case of a status, in the handler of the responses.
LEMMA ResponseCase ==
  ASSUME NEW error
  PROVE  PartyError(BuildFrom("RelyingPartyResponseError", AuthorizationResponseCases, error),
                    IF error.status \in {"400", "403"} THEN "InvalidAuthorizationResponse"
                    ELSE "RelyingPartyGenericError", error.status)
<1> DEFINE cases == AuthorizationResponseCases
           exact == {s \in DOMAIN cases : s = error.status}
           match == IF exact # {} THEN exact ELSE DOMAIN cases \cap {"*"}
           chosen == CHOOSE s \in match : TRUE
<1>1. DOMAIN cases = {"400", "403", "*"}
  BY DEF AuthorizationResponseCases
<1>2. match # {} /\ chosen \in match
  BY <1>1
<1>3. error.status \in {"400", "403"} => chosen = error.status
  BY <1>1, <1>2
<1>4. error.status \notin {"400", "403"} => chosen = "*"
  BY <1>1, <1>2
<1>5. cases[chosen] = IF error.status \in {"400", "403"} THEN "InvalidAuthorizationResponse"
                      ELSE "RelyingPartyGenericError"
  BY <1>3, <1>4 DEF AuthorizationResponseCases
<1>6. BuildFrom("RelyingPartyResponseError", cases, error)
        = StatusError("RelyingPartyResponseError", cases[chosen], error.status, error.reason)
  BY <1>2 DEF BuildFrom
<1> QED BY <1>5, <1>6 DEF PartyError, StatusError

\* An answer to a response that is not a success, in both versions.
LEMMA RejectedResponse ==
  ASSUME NEW a, a.status # "200",
         NEW error \in {HandleAuthorizationResponseErrorV1_0(
                          HasStatusOrThrow("200", "UnexpectedStatusCodeError", a)),
                        MapSdkAuthorizationResponseError(
                          HasStatusOrThrow("200", "SdkUnexpectedStatusCode", a))}
  PROVE  PartyError(error, IF a.status \in {"400", "403"} THEN "InvalidAuthorizationResponse"
                           ELSE "RelyingPartyGenericError", a.status)
<1> DEFINE e1 == HasStatusOrThrow("200", "UnexpectedStatusCodeError", a)
           e2 == HasStatusOrThrow("200", "SdkUnexpectedStatusCode", a)
<1>1. /\ e1.class = "UnexpectedStatusCodeError" /\ e1.status = a.status
      /\ e2.class = "SdkUnexpectedStatusCode" /\ e2.status = a.status
  BY DEF HasStatusOrThrow, UnexpectedStatus, StatusError
<1> HIDE DEF e1, e2
<1>2. HandleAuthorizationResponseErrorV1_0(e1)
        = BuildFrom("RelyingPartyResponseError", AuthorizationResponseCases, e1)
  BY <1>1 DEF HandleAuthorizationResponseErrorV1_0, Handled, InstanceOf
<1>3. MapSdkAuthorizationResponseError(e2)
        = BuildFrom("RelyingPartyResponseError", AuthorizationResponseCases, e2)
  BY <1>1 DEF MapSdkAuthorizationResponseError
<1> QED BY <1>1, <1>2, <1>3, ResponseCase DEF e1, e2

\* Before the end, every answer so far was a success; what fails on the device
\* is not an error of the relying party, and only a query that cannot be
\* satisfied lets the flow go on, to a refusal.
AnswerInvariant ==
  /\ rpStep \in {"idle", "request"} => rpAnswered = "none"
  /\ rpStep \in {"verify", "evaluate", "prepare", "send"} => rpAnswered \in {"none", "200"}
  /\ rpStep \in {"idle", "request", "verify", "evaluate", "prepare", "send"} =>
       response = NoResponse
  /\ rpStep = "failed" /\ rpFailure.class = "CredentialsNotFoundError" => response = NoResponse
  /\ RejectionClassified

\* A lost answer, of a response in both versions.
LEMMA LostResponse ==
  /\ MapSdkAuthorizationResponseError(Failure("SdkFetchAuthorizationResponseError"))
       = ToRelyingPartyResponseError("400")
  /\ Failure("TypeError").code # "InvalidAuthorizationResponse"
  /\ Failure("TypeError").class = "TypeError" /\ Failure("TypeError") # NoError
  /\ PartyError(ToRelyingPartyResponseError("400"), "RelyingPartyGenericError", "400")
BY DEF MapSdkAuthorizationResponseError, Failure, StatusError, NoError,
       ToRelyingPartyResponseError, PartyError

LEMMA AnswerStep ==
  ASSUME AnswerInvariant, RelyingPartyNext PROVE AnswerInvariant'
<1> USE DEF AnswerInvariant, CallEnds
<1>1. ASSUME NEW v \in PartyVersions, NEW c \in Parties, NEW u \in BOOLEAN,
             NEW p \in {"openid_federation", "x509_hash", "other"}, NEW s \in {"none", "s1"},
             StartFlowFromQR(v, c, p, s, u)
      PROVE  AnswerInvariant'
  BY <1>1 DEF StartFlowFromQR, RejectionClassified
<1>2. ASSUME NEW p \in Parties, NEW o \in Parties, NEW uses \in {{"sig"}, {"sig", "enc"}},
             EvaluateRelyingPartyTrust(p, {k \in KeysOf[o] : k.use \in uses})
      PROVE  AnswerInvariant'
  BY <1>2 DEF EvaluateRelyingPartyTrust, RejectionClassified
<1>3. ASSUME NEW a \in PartyAnswers, NEW o \in RequestObjects, GetRequestObject(a, o)
      PROVE  AnswerInvariant'
  <2>1. rpAnswered' = a.status /\ UNCHANGED response /\ response = NoResponse
    BY <1>3 DEF GetRequestObject
  <2>2. a.status # "200" =>
          PartyError(rpFailure', "RelyingPartyGenericError", a.status) /\ rpFailure' # NoError
    BY <1>3, GenericError DEF GetRequestObject, PartyError, NoError, StatusError
  <2>3. rpStep' = IF rpFailure' = NoError THEN "verify" ELSE "failed"
    BY <1>3 DEF GetRequestObject
  <2>4. a.status # "lost"
    BY RelyingPartyAssumption DEF PartyAnswers
  <2> QED BY <2>1, <2>2, <2>3, <2>4
          DEF RejectionClassified, PartyError, IsErrorOf, InstanceOf, NoResponse
<1>4. ASSUME NEW a \in PostAnswers, SendAuthorizationResponse(a)
      PROVE  AnswerInvariant'
  <2>1. CASE EncryptionKeys = {}
    <3>1. UNCHANGED <<response, rpAnswered>> /\ rpStep' \in {"sent", "failed"} /\ rpStep = "send"
      BY <1>4, <2>1 DEF SendAuthorizationResponse
    <3> QED BY <3>1 DEF RejectionClassified
  <2>2. CASE EncryptionKeys # {}
    <3>1. /\ rpAnswered' = a.status /\ response'.kind = "response" /\ qr' = qr
          /\ rpStep' = IF rpFailure' = NoError THEN "sent" ELSE "failed"
          /\ rpFailure' = ResponseError(a)
      BY <1>4, <2>2 DEF SendAuthorizationResponse
    <3>2. CASE a = LostAnswer
      <4>1. rpFailure' = IF qr.version = "1.0.0" THEN Failure("TypeError")
                                                 ELSE ToRelyingPartyResponseError("400")
        BY <3>1, <3>2, LostResponse DEF ResponseError
      <4>2. rpAnswered' = "lost"
        BY <3>1, <3>2 DEF LostAnswer
      <4> QED BY <3>1, <4>1, <4>2, LostResponse
              DEF RejectionClassified, PartyError
    <3>3. CASE a # LostAnswer
      <4>1. a.status # "lost"
        BY <3>3, RelyingPartyAssumption DEF PostAnswers, PartyAnswers
      <4>2. rpFailure' \in {HandleAuthorizationResponseErrorV1_0(
                               HasStatusOrThrow("200", "UnexpectedStatusCodeError", a)),
                             MapSdkAuthorizationResponseError(
                               HasStatusOrThrow("200", "SdkUnexpectedStatusCode", a))}
        BY <3>1, <3>3 DEF ResponseError
      <4>3. a.status # "200" =>
              PartyError(rpFailure',
                         IF a.status \in {"400", "403"} THEN "InvalidAuthorizationResponse"
                         ELSE "RelyingPartyGenericError", a.status)
        BY <4>2, RejectedResponse
      <4>4. a.status = "200" => rpFailure' = NoError
        BY <4>2 DEF HasStatusOrThrow, HandleAuthorizationResponseErrorV1_0, Handled, InstanceOf,
                    PartyErrors, MapSdkAuthorizationResponseError, NoError, StatusError
      <4> QED BY <3>1, <4>1, <4>3, <4>4 DEF RejectionClassified, PartyError, IsErrorOf, InstanceOf
    <3> QED BY <3>2, <3>3
  <2> QED BY <2>1, <2>2
<1>5. ASSUME NEW a \in PostAnswers, SendAuthorizationErrorResponse(a)
      PROVE  AnswerInvariant'
  <2>1. /\ rpAnswered' = a.status /\ response'.kind = "refusal"
        /\ rpFailure' = RefusalError(a)
        /\ rpStep' = IF rpFailure' = NoError THEN "refused" ELSE "failed"
    BY <1>5 DEF SendAuthorizationErrorResponse
  <2>2. CASE a = LostAnswer
    <3>1. rpFailure' = Failure("TypeError") /\ rpAnswered' = "lost"
      BY <2>1, <2>2 DEF RefusalError, LostAnswer
    <3> QED BY <2>1, <3>1, LostResponse DEF RejectionClassified
  <2>3. CASE a # LostAnswer
    <3>1. /\ a.status # "lost"
          /\ rpFailure' = HasStatusOrThrow("200", "RelyingPartyResponseError", a)
      BY <2>1, <2>3, RelyingPartyAssumption DEF PostAnswers, PartyAnswers, RefusalError
    <3>2. a.status # "200" => PartyError(rpFailure', "RelyingPartyGenericError", a.status)
      BY <3>1, GenericError
    <3>3. a.status = "200" => rpFailure' = NoError
      BY <3>1 DEF HasStatusOrThrow
    <3> QED BY <2>1, <3>1, <3>2, <3>3 DEF RejectionClassified, PartyError, IsErrorOf, InstanceOf
  <2> QED BY <2>2, <2>3
<1>6. ASSUME NEW x \in {"none", "root", "other"}, VerifyAuthRequestCertificateChain(x, "root")
      PROVE  AnswerInvariant'
  BY <1>6 DEF VerifyAuthRequestCertificateChain, RejectionClassified
<1>7. CASE VerifyRequestObject
  BY <1>7 DEF VerifyRequestObject, RejectionClassified
<1>8. ASSUME NEW h \in HeldCredentials, NEW q \in AskedCredentials, EvaluateDcqlQuery(h, q)
      PROVE  AnswerInvariant'
  BY <1>8 DEF EvaluateDcqlQuery, RejectionClassified
<1>9. CASE PrepareRemotePresentations
  BY <1>9 DEF PrepareRemotePresentations, RejectionClassified
<1> QED BY <1>1, <1>2, <1>3, <1>4, <1>5, <1>6, <1>7, <1>8, <1>9 DEF RelyingPartyNext

\* Whatever the status of an answer, the error it becomes says so, a lost one
\* has a class of its own in each version, and an invalid response is told from
\* every other failure.
THEOREM ClassifiesRejections == LibrarySpec => []RejectionClassified
<1>1. LibraryInit => AnswerInvariant
  BY DEF LibraryInit, RelyingPartyInit, AnswerInvariant, RejectionClassified
<1>2. AnswerInvariant /\ [LibraryNext]_libraryVars => AnswerInvariant'
  <2> SUFFICES ASSUME AnswerInvariant, [LibraryNext]_libraryVars PROVE AnswerInvariant'
    OBVIOUS
  <2>1. CASE Presents
    BY <2>1, AnswerStep DEF Presents
  <2>2. CASE UNCHANGED rpVars
    BY <2>2 DEF rpVars, AnswerInvariant, RejectionClassified
  <2> QED BY <2>1, <2>2 DEF LibraryNext, Issues, Provides, Catalogues, Offered, libraryVars
<1>3. AnswerInvariant => RejectionClassified
  BY DEF AnswerInvariant
<1> QED BY <1>1, <1>2, <1>3, PTL DEF LibrarySpec

(***************************************************************************)
(* The wallet provider.                                                    *)
(***************************************************************************)

ProviderCodes == {"WalletInstanceRevoked", "WalletInstanceNotFound"}

\* What the caller of an attestation is told of an instance, by the status.
AttestationCode(status) ==
  CASE status = "403" -> "WalletInstanceRevoked"
    [] status = "404" -> "WalletInstanceNotFound"
    [] status = "409" -> "WalletInstanceIntegrityFailed"
    [] OTHER          -> "WalletInstanceAttestationIssuingFailed"

\* The handler of the attestation.
LEMMA AttestationCase ==
  ASSUME NEW error, error.class = "WalletProviderResponseError"
  PROVE  HandleAttestationCreationError(error).code = AttestationCode(error.status)
<1> DEFINE cases == [s \in {"403", "404", "409", "*"} |-> AttestationCode(s)]
           exact == {s \in DOMAIN cases : s = error.status}
           match == IF exact # {} THEN exact ELSE DOMAIN cases \cap {"*"}
           chosen == CHOOSE s \in match : TRUE
<1>1. match # {} /\ chosen \in match
  OBVIOUS
<1>2. error.status \in {"403", "404", "409"} => chosen = error.status
  BY <1>1
<1>3. error.status \notin {"403", "404", "409"} => chosen = "*"
  BY <1>1
<1>4. cases[chosen] = AttestationCode(error.status)
  BY <1>2, <1>3 DEF AttestationCode
<1>5. BuildFrom("WalletProviderResponseError", cases, error)
        = StatusError("WalletProviderResponseError", cases[chosen], error.status, error.reason)
  BY <1>1 DEF BuildFrom
<1>6. HandleAttestationCreationError(error)
        = BuildFrom("WalletProviderResponseError", cases, error)
  BY DEF HandleAttestationCreationError, Handled, InstanceOf, AttestationCode
<1> HIDE DEF cases, chosen
<1> QED BY <1>4, <1>5, <1>6 DEF StatusError

\* The other errors say nothing of the instance.
LEMMA CreationCase ==
  ASSUME NEW error, error.class = "WalletProviderResponseError"
  PROVE  HandleCreateWalletInstanceError(error).code \notin ProviderCodes
<1> DEFINE cases == [s \in {"409", "*"} |-> IF s = "*" THEN "WalletInstanceCreationFailed"
                                            ELSE "WalletInstanceIntegrityFailed"]
           exact == {s \in DOMAIN cases : s = error.status}
           match == IF exact # {} THEN exact ELSE DOMAIN cases \cap {"*"}
           chosen == CHOOSE s \in match : TRUE
<1>1. match # {} /\ chosen \in {"409", "*"}
  OBVIOUS
<1>2. cases[chosen] \notin ProviderCodes
  BY <1>1 DEF ProviderCodes
<1>3. BuildFrom("WalletProviderResponseError", cases, error)
        = StatusError("WalletProviderResponseError", cases[chosen], error.status, error.reason)
  BY <1>1 DEF BuildFrom
<1>4. HandleCreateWalletInstanceError(error)
        = BuildFrom("WalletProviderResponseError", cases, error)
  BY DEF HandleCreateWalletInstanceError, Handled, InstanceOf
<1> HIDE DEF cases, chosen
<1> QED BY <1>2, <1>3, <1>4 DEF StatusError

AllProviderAnswers ==
  [status : {"200", "201", "403", "404", "409", "500", "none"}, body : {"problem", "other"}]

\* What is no error of the provider passes the handlers.
LEMMA PassedOn ==
  ASSUME NEW error \in {NoError, Failure("TypeError")}
  PROVE  /\ HandleCreateWalletInstanceError(error) = error
         /\ HandleAttestationCreationError(error) = error
<1>1. error.class \in {"none", "TypeError"}
  BY DEF NoError, Failure, StatusError
<1> QED BY <1>1 DEF HandleCreateWalletInstanceError, HandleAttestationCreationError, Handled, InstanceOf

\* What an answer of the provider becomes.
LEMMA ProviderAnswer ==
  ASSUME NEW a \in AllProviderAnswers
  PROVE  /\ a.status \in {"200", "201"} => AnswerOf(a) = NoError
         /\ a.status = "none" => AnswerOf(a) = Failure("TypeError")
         /\ a.status \notin {"200", "201", "none"} =>
              /\ AnswerOf(a).class = "WalletProviderResponseError"
              /\ AnswerOf(a).code = "WalletProviderGenericError"
              /\ AnswerOf(a).status = a.status
<1> DEFINE b == [a EXCEPT !.body = IF @ = "problem" THEN @ ELSE "invalidResponse"]
<1>1. b.status = a.status
  BY DEF AllProviderAnswers
<1>2. AnswerOf(a) = IF a.status = "none" THEN Failure("TypeError")
                    ELSE IF a.status \in {"200", "201"} THEN NoError
                    ELSE UnexpectedStatus("WalletProviderResponseError", b)
  BY DEF AnswerOf, ValidateResponse
<1>3. UnexpectedStatus("WalletProviderResponseError", b)
        = StatusError("WalletProviderResponseError", "WalletProviderGenericError", a.status, b.body)
  BY <1>1 DEF UnexpectedStatus, DefaultCode
<1> HIDE DEF b
<1> QED BY <1>2, <1>3 DEF StatusError

\* A call waits for something only while nothing has failed; which call it is
\* follows from what it waits for.
ProviderInvariant ==
  /\ known \in [HardwareTags -> {"absent", "valid", "revoked"}]
  /\ wpStep # "failed" => wpFailure = NoError /\ wpAnswered \in {"none", "200", "201"}
  /\ wpStep = "nonce" => wpCall.op \in {"create", "attest"}
  /\ wpStep \in {"integrity", "create"} => wpCall.op = "create"
  /\ wpStep \in {"sign", "attest", "attested"} => wpCall.op = "attest"
  /\ wpCall.op = "attest" => wpCall.tag \in HardwareTags
  /\ wpStep \in {"attest", "attested"} => wpCall.tag \in hardwareKeys
  /\ wpStep = "failed" /\ wpCall.op = "attest" =>
       /\ wpAnswered = "403" => known[wpCall.tag] = "revoked"
       /\ wpAnswered = "404" => known[wpCall.tag] = "absent"
  /\ InstanceTruth

\* Errors that say nothing of the instance.
LEMMA SilentErrors ==
  /\ NoError.code \notin ProviderCodes
  /\ \A c \in {"Error", "TypeError", "ZodError", "IntegrityError"} :
       Failure(c).code \notin ProviderCodes /\ Failure(c) # NoError
BY DEF NoError, Failure, StatusError, ProviderCodes

\* A call goes on, or fails, without a word on the instance.
LEMMA SilentStep ==
  ASSUME ProviderInvariant, NEW error, NEW next,
         ProviderCallEnds(error, next), error.code \notin ProviderCodes,
         wpStep' = "failed" /\ wpCall'.op = "attest" => wpAnswered' \notin {"403", "404"},
         wpStep' # "attested"
  PROVE  InstanceTruth'
BY DEF ProviderCallEnds, InstanceTruth, ProviderCodes

LEMMA ProviderStep ==
  ASSUME ProviderInvariant, WalletProviderNext PROVE ProviderInvariant'
<1> USE DEF ProviderInvariant
<1>1. ASSUME NEW b \in BOOLEAN, NEW n \in BOOLEAN, EnsureIntegrityServiceIsReady(b, n)
      PROVE  ProviderInvariant'
  <2>1. PICK error \in {NoError, Failure("Error")} : ProviderCallEnds(error, "idle")
    BY <1>1 DEF EnsureIntegrityServiceIsReady, UnsupportedPlatform
  <2>2. wpStep = "idle" /\ UNCHANGED <<wpCall, hardwareKeys, known, wpAnswered>>
    BY <1>1 DEF EnsureIntegrityServiceIsReady
  <2>3. wpStep' \in {"idle", "failed"}
    BY <2>1 DEF ProviderCallEnds
  <2>4. InstanceTruth'
    BY <2>1, <2>2, <2>3, SilentErrors, SilentStep
  <2> QED BY <2>1, <2>2, <2>3, <2>4 DEF ProviderCallEnds
<1>2. ASSUME NEW t \in HardwareTags, GenerateIntegrityHardwareKeyTag(t)
      PROVE  ProviderInvariant'
  <2>1. PICK error \in {NoError, Failure("Error")} : ProviderCallEnds(error, "nonce")
    BY <1>2 DEF GenerateIntegrityHardwareKeyTag, UnsupportedPlatform
  <2>2. /\ wpStep = "idle" /\ UNCHANGED <<known, wpAnswered>>
        /\ \/ wpCall' = wpCall /\ error # NoError
           \/ wpCall' = [op |-> "create", tag |-> t]
    BY <1>2, <2>1, SilentErrors
    DEF GenerateIntegrityHardwareKeyTag, UnsupportedPlatform, ProviderCallEnds
  <2>3. wpStep' \in {"nonce", "failed"}
    BY <2>1 DEF ProviderCallEnds
  <2>4. InstanceTruth'
    BY <2>1, <2>2, <2>3, SilentErrors, SilentStep
  <2> QED BY <2>1, <2>2, <2>3, <2>4 DEF ProviderCallEnds
<1>3. CASE GetHardwareSignature
  <2>1. PICK error \in {NoError, Failure("IntegrityError")} :
          /\ ProviderCallEnds(error, "attest")
          /\ error = NoError => wpCall.tag \in hardwareKeys
    BY <1>3, SilentErrors DEF GetHardwareSignature
  <2>2. wpStep = "sign" /\ UNCHANGED <<wpCall, hardwareKeys, known, wpAnswered>>
    BY <1>3 DEF GetHardwareSignature
  <2>3. wpStep' \in {"attest", "failed"}
    BY <2>1 DEF ProviderCallEnds
  <2>4. InstanceTruth'
    BY <2>1, <2>2, <2>3, SilentErrors, SilentStep
  <2> QED BY <2>1, <2>2, <2>3, <2>4 DEF ProviderCallEnds
<1>4. ASSUME NEW attested \in BOOLEAN, GetIntegrityAttestation(attested)
      PROVE  ProviderInvariant'
  <2>1. PICK error \in {NoError, Failure("IntegrityError")} : ProviderCallEnds(error, "create")
    BY <1>4 DEF GetIntegrityAttestation
  <2>2. wpStep = "integrity" /\ UNCHANGED <<wpCall, known, wpAnswered>>
    BY <1>4 DEF GetIntegrityAttestation
  <2>3. wpStep' \in {"create", "failed"}
    BY <2>1 DEF ProviderCallEnds
  <2>4. InstanceTruth'
    BY <2>1, <2>2, <2>3, SilentErrors, SilentStep
  <2> QED BY <2>1, <2>2, <2>3, <2>4 DEF ProviderCallEnds
<1>5. ASSUME NEW t \in HardwareTags, GetAttestationV1_0(t)
      PROVE  ProviderInvariant'
  <2>1. /\ wpStep = "idle" /\ wpStep' = "nonce" /\ wpCall' = [op |-> "attest", tag |-> t]
        /\ UNCHANGED <<hardwareKeys, known, wpFailure, wpAnswered>>
    BY <1>5 DEF GetAttestationV1_0
  <2>2. InstanceTruth'
    BY <2>1, SilentErrors DEF InstanceTruth, ProviderCodes
  <2> QED BY <2>1, <2>2
<1>6. CASE GetNonce
  <2>1. PICK a \in ProviderAnswers("nonce") :
          /\ ProviderCallEnds(AnswerOf(a), IF wpCall.op = "create" THEN "integrity" ELSE "sign")
          /\ wpAnswered' = a.status
    BY <1>6 DEF GetNonce
  <2>2. a \in AllProviderAnswers /\ a.status \in {"200", "500", "none"}
    BY DEF ProviderAnswers, ProviderStatuses, AllProviderAnswers
  <2>3. AnswerOf(a).code \notin ProviderCodes /\ (AnswerOf(a) = NoError => a.status = "200")
    <3>1. CASE a.status \in {"200", "none"}
      BY <2>2, <3>1, ProviderAnswer, SilentErrors
    <3>2. CASE a.status = "500"
      BY <2>2, <3>2, ProviderAnswer DEF ProviderCodes, NoError, StatusError
    <3> QED BY <2>2, <3>1, <3>2
  <2>4. wpStep = "nonce" /\ UNCHANGED <<wpCall, hardwareKeys, known>>
    BY <1>6 DEF GetNonce
  <2>5. wpStep' \in {"integrity", "sign", "failed"}
    BY <2>1 DEF ProviderCallEnds
  <2>6. InstanceTruth'
    BY <2>1, <2>2, <2>3, <2>4, <2>5, SilentStep
  <2> QED BY <2>1, <2>2, <2>3, <2>4, <2>6 DEF ProviderCallEnds
<1>7. CASE CreateWalletInstance
  <2>1. PICK a \in ProviderAnswers("create") :
          /\ ProviderCallEnds(HandleCreateWalletInstanceError(AnswerOf(a)), "idle")
          /\ ProviderDoes(wpCall.tag, a.status, "valid")
          /\ wpAnswered' = a.status
    BY <1>7 DEF CreateWalletInstance
  <2> DEFINE error == HandleCreateWalletInstanceError(AnswerOf(a))
  <2>2. a \in AllProviderAnswers /\ a.status \in {"201", "409", "500", "none"}
    BY DEF ProviderAnswers, ProviderStatuses, AllProviderAnswers
  <2>3. error.code \notin ProviderCodes
    <3>1. CASE a.status \in {"201", "none"}
      BY <2>2, <3>1, ProviderAnswer, PassedOn, SilentErrors
    <3>2. CASE a.status \notin {"201", "none"}
      BY <2>2, <3>2, ProviderAnswer, CreationCase
    <3> QED BY <3>1, <3>2
  <2>4. wpStep = "create" /\ UNCHANGED <<wpCall, hardwareKeys>>
    BY <1>7 DEF CreateWalletInstance
  <2>5. wpStep' \in {"idle", "failed"} /\ (wpStep' = "idle" => wpFailure' = NoError)
    BY <2>1 DEF ProviderCallEnds
  <2>6. wpStep' = "idle" => a.status = "201"
    <3>1. SUFFICES ASSUME a.status # "201" PROVE error # NoError
      BY <2>1 DEF ProviderCallEnds
    <3>2. CASE a.status = "none"
      BY <2>2, <3>2, ProviderAnswer, PassedOn, SilentErrors
    <3>3. CASE a.status # "none"
      <4>1. AnswerOf(a).class = "WalletProviderResponseError"
        BY <2>2, <3>1, <3>3, ProviderAnswer
      <4>2. error.class = "WalletProviderResponseError"
        BY <4>1 DEF HandleCreateWalletInstanceError, Handled, BuildFrom, StatusError
      <4> QED BY <4>2 DEF NoError, StatusError
    <3> QED BY <3>2, <3>3
  <2>7. known' \in [HardwareTags -> {"absent", "valid", "revoked"}]
    BY <2>1 DEF ProviderDoes
  <2> HIDE DEF error
  <2>8. InstanceTruth'
    BY <2>1, <2>3, <2>4, <2>5, SilentStep DEF error
  <2> QED BY <2>1, <2>4, <2>5, <2>6, <2>7, <2>8
<1>8. CASE RequestAttestationV1_0
  <2>1. PICK a \in ProviderAnswers("attest") :
          /\ ProviderCallEnds(
               IF a.status = "200" /\ a.body = "other" THEN Failure("ZodError")
               ELSE HandleAttestationCreationError(AnswerOf(a)), "attested")
          /\ wpAnswered' = a.status
    BY <1>8 DEF RequestAttestationV1_0
  <2>2. wpStep = "attest" /\ UNCHANGED <<wpCall, hardwareKeys, known>>
    BY <1>8 DEF RequestAttestationV1_0
  <2>3. /\ a \in AllProviderAnswers
        /\ a.status \in {"200", "403", "404", "409", "500", "none"}
        /\ a.status = "404" <=> known[wpCall.tag] = "absent" /\ a.status \notin {"500", "none"}
        /\ a.status = "403" <=> known[wpCall.tag] = "revoked" /\ a.status \notin {"500", "none"}
    BY DEF ProviderAnswers, ProviderStatuses, AllProviderAnswers
  <2>4. CASE a.status = "200"
    <3>1. wpFailure' \in {NoError, Failure("ZodError")}
      BY <2>1, <2>3, <2>4, ProviderAnswer, PassedOn DEF ProviderCallEnds
    <3>2. wpStep' = IF wpFailure' = NoError THEN "attested" ELSE "failed"
      BY <2>1 DEF ProviderCallEnds
    <3>3. known[wpCall.tag] # "absent"
      BY <2>3, <2>4
    <3> QED BY <2>1, <2>2, <2>4, <3>1, <3>2, <3>3, SilentErrors DEF InstanceTruth, ProviderCodes
  <2>5. CASE a.status = "none"
    <3>1. wpFailure' = Failure("TypeError")
      BY <2>1, <2>3, <2>5, ProviderAnswer, PassedOn DEF ProviderCallEnds
    <3>2. wpStep' = "failed"
      BY <2>1, <3>1, SilentErrors DEF ProviderCallEnds
    <3> QED BY <2>1, <2>2, <2>5, <3>1, <3>2, SilentErrors DEF InstanceTruth, ProviderCodes
  <2>6. CASE a.status \notin {"200", "none"}
    <3>1. wpFailure'.code = AttestationCode(a.status)
      BY <2>1, <2>3, <2>6, ProviderAnswer, AttestationCase DEF ProviderCallEnds
    <3>2. wpStep' = "failed"
      <4>1. wpFailure' # NoError
        BY <3>1 DEF AttestationCode, NoError, StatusError
      <4> QED BY <2>1, <4>1 DEF ProviderCallEnds
    <3> QED BY <2>1, <2>2, <2>3, <2>6, <3>1, <3>2 DEF InstanceTruth, AttestationCode
  <2> QED BY <2>4, <2>5, <2>6
<1>9. ASSUME NEW t \in HardwareTags, RevokeWalletInstance(t) \/ GetWalletInstanceStatus(t)
      PROVE  ProviderInvariant'
  <2>1. PICK status \in {"200", "404", "500", "none"}, op \in {"revoke", "status"} :
          /\ ProviderCallEnds(AnswerOf([status |-> status, body |-> "problem"]), "idle")
          /\ wpCall' = [op |-> op, tag |-> t]
          /\ wpAnswered' = status
    BY <1>9 DEF RevokeWalletInstance, GetWalletInstanceStatus, ProviderStatuses
  <2>2. /\ known' \in [HardwareTags -> {"absent", "valid", "revoked"}]
        /\ UNCHANGED hardwareKeys /\ wpStep = "idle"
    BY <1>9 DEF RevokeWalletInstance, GetWalletInstanceStatus, ProviderDoes
  <2> DEFINE a == [status |-> status, body |-> "problem"]
  <2>3. a \in AllProviderAnswers /\ a.status = status
    BY DEF AllProviderAnswers
  <2> HIDE DEF a
  <2>4. AnswerOf(a).code \notin ProviderCodes /\ (AnswerOf(a) = NoError => status = "200")
    <3>1. CASE status \in {"200", "none"}
      BY <2>3, <3>1, ProviderAnswer, SilentErrors
    <3>2. CASE status \in {"404", "500"}
      BY <2>3, <3>2, ProviderAnswer DEF ProviderCodes, NoError, StatusError
    <3> QED BY <3>1, <3>2
  <2>5. wpStep' \in {"idle", "failed"}
    BY <2>1 DEF ProviderCallEnds
  <2>6. InstanceTruth'
    BY <2>1, <2>4, <2>5, SilentStep DEF a
  <2>7. wpStep' = "idle" => wpFailure' = NoError /\ wpAnswered' = "200"
    <3>1. wpFailure' = AnswerOf(a) /\ wpStep' = IF wpFailure' = NoError THEN "idle" ELSE "failed"
      BY <2>1 DEF ProviderCallEnds, a
    <3>2. wpAnswered' = status
      BY <2>1
    <3> QED BY <2>4, <3>1, <3>2
  <2>8. wpCall'.op # "attest"
    <3>1. PICK o \in {"revoke", "status"} : wpCall' = [op |-> o, tag |-> t]
      BY <2>1
    <3> QED BY <3>1
  <2> QED BY <2>2, <2>5, <2>6, <2>7, <2>8
<1>10. ASSUME NEW t \in HardwareTags, RevokedByProvider(t) PROVE ProviderInvariant'
  <2>1. /\ known[t] = "valid" /\ known' = [known EXCEPT ![t] = "revoked"]
        /\ UNCHANGED <<wpStep, wpCall, hardwareKeys, wpFailure, wpAnswered>>
    BY <1>10 DEF RevokedByProvider
  <2>2. CASE wpCall.op = "attest" /\ wpCall.tag # t
    BY <2>1, <2>2 DEF InstanceTruth
  <2>3. CASE wpCall.op = "attest" /\ wpCall.tag = t
    BY <2>1, <2>3 DEF InstanceTruth
  <2>4. CASE wpCall.op # "attest"
    BY <2>1, <2>4 DEF InstanceTruth
  <2> QED BY <2>2, <2>3, <2>4
<1>11. CASE NextCall
  <2>1. /\ wpStep' = "idle" /\ wpCall' = NoProviderCall /\ wpFailure' = NoError
        /\ wpAnswered' = "none" /\ UNCHANGED <<hardwareKeys, known>>
    BY <1>11 DEF NextCall
  <2>2. InstanceTruth'
    BY <2>1, SilentErrors DEF InstanceTruth, ProviderCodes
  <2> QED BY <2>1, <2>2 DEF NoProviderCall
<1> QED BY <1>1, <1>2, <1>3, <1>4, <1>5, <1>6, <1>7, <1>8, <1>9, <1>10, <1>11
    DEF WalletProviderNext

\* Whatever the provider answers, loses and revokes on its own, an attestation
\* that fails says what became of the instance, and no other call does.
THEOREM TellsInstance == LibrarySpec => []InstanceTruth
<1>1. LibraryInit => ProviderInvariant
  BY SilentErrors DEF LibraryInit, WalletProviderInit, ProviderInvariant, InstanceTruth,
                      NoProviderCall, ProviderCodes
<1>2. ProviderInvariant /\ [LibraryNext]_libraryVars => ProviderInvariant'
  <2> SUFFICES ASSUME ProviderInvariant, [LibraryNext]_libraryVars PROVE ProviderInvariant'
    OBVIOUS
  <2>1. CASE Provides
    BY <2>1, ProviderStep DEF Provides
  <2>2. CASE UNCHANGED wpVars
    BY <2>2 DEF wpVars, ProviderInvariant, InstanceTruth
  <2> QED BY <2>1, <2>2 DEF LibraryNext, Issues, Presents, Catalogues, Offered, libraryVars
<1>3. ProviderInvariant => InstanceTruth
  BY DEF ProviderInvariant
<1> QED BY <1>1, <1>2, <1>3, PTL DEF LibrarySpec

(***************************************************************************)
(* The errors of an issuance.                                              *)
(***************************************************************************)

\* The codes that only the answer of the credential endpoint explains.
CredentialCodes ==
  {"CredentialInvalidStatus", "CredentialIssuingNotSynchronous", "CredentialRequestFailed"}

\* An error without an answer behind it.
Unanswered(error) == error.status = "none" /\ error.code \notin CredentialCodes

\* What a call makes of an answer that should have had the expected status.
Explained(error, expected, answer) ==
  /\ error.code \notin CredentialCodes
  /\ IF answer.status = expected THEN Unanswered(error)
                                 ELSE error.status = answer.status /\ error # NoError

\* Until a call fails, every answer had the status that its call expects.
ExplainedInvariant ==
  /\ step # "failed" =>
       /\ failure = NoError /\ answered.status \in {"none", "200", "201"}
       /\ answered.endpoint = "credential" => answered.status = "200"
  /\ FailureExplained

LEMMA OwnErrors ==
  /\ Unanswered(NoError)
  /\ \A c \in {"IoWalletError", "TypeError", "Error", "ZodError", "SdkValidationError",
               "ValidationFailed", "AuthorizationError", "AuthorizationIdpError",
               "Oauth2JwtVerifyError", "MissingX509CertsError", "X509ValidationError",
               "UnimplementedFeatureError"} :
       Unanswered(Failure(c)) /\ Failure(c) # NoError
BY DEF NoError, Failure, StatusError, Unanswered, CredentialCodes

LEMMA AnswerExplained ==
  ASSUME NEW expected, NEW a \in Answers,
         NEW class \in {"IssuerResponseError", "SdkUnexpectedStatusCode",
                        "UnexpectedStatusCodeError"},
         NEW invalid \in {"SdkValidationError", "ValidationFailed", "ZodError"}
  PROVE  Explained(AnswerError(expected, class, invalid, a), expected, a)
<1>1. CASE a.status = expected
  <2>1. AnswerError(expected, class, invalid, a) \in {NoError, Failure(invalid)}
    BY <1>1 DEF AnswerError, HasStatusOrThrow
  <2> QED BY <1>1, <2>1, OwnErrors DEF Explained, Unanswered
<1>2. CASE a.status # expected
  <2> DEFINE error == StatusError(class, DefaultCode[class], a.status, a.body)
  <2>1. error # NoError /\ error.status = a.status
    BY DEF StatusError, NoError
  <2>2. DefaultCode[class] \in {"IssuerGenericError", "UnexpectedStatusCode"}
    BY DEF DefaultCode
  <2>3. error.code \notin CredentialCodes
    BY <2>2 DEF StatusError, CredentialCodes
  <2>4. AnswerError(expected, class, invalid, a) = error
    BY <1>2, <2>1 DEF AnswerError, HasStatusOrThrow, UnexpectedStatus
  <2> HIDE DEF error
  <2> QED BY <1>2, <2>1, <2>3, <2>4 DEF Explained
<1> QED BY <1>1, <1>2

\* A call that asks the issuer nothing.
LEMMA UnansweredStep ==
  ASSUME ExplainedInvariant, step # "failed", NEW error, NEW next,
         EndsWith(error, next), next # "failed", Unanswered(error), UNCHANGED answered
  PROVE  ExplainedInvariant'
<1>1. /\ answered'.status \in {"none", "200", "201"}
      /\ answered'.endpoint = "credential" => answered'.status = "200"
  BY DEF ExplainedInvariant
<1>2. /\ failure' = error /\ failure'.status = "none" /\ failure'.code \notin CredentialCodes
      /\ step' # "failed" => failure' = NoError
  BY DEF EndsWith, Unanswered
<1> QED BY <1>1, <1>2 DEF ExplainedInvariant, FailureExplained, CredentialCodes

\* A call of an endpoint other than that of the credential.
LEMMA AnsweredStep ==
  ASSUME ExplainedInvariant, step # "failed", NEW error, NEW next, EndsWith(error, next),
         next # "failed", NEW a \in Answers, NEW endpoint, endpoint # "credential",
         Received(endpoint, a), NEW expected \in {"200", "201"}, Explained(error, expected, a)
  PROVE  ExplainedInvariant'
<1>1. answered'.status = a.status /\ answered'.endpoint # "credential"
  BY DEF Received
<1>2. /\ failure' = error /\ failure'.code \notin CredentialCodes
      /\ step' # "failed" => failure' = NoError
  BY DEF EndsWith, Explained
<1>3. failure'.status \in {"none", a.status}
  BY <1>2 DEF Explained, Unanswered
<1>4. step' # "failed" => a.status = expected
  BY <1>2 DEF Explained
<1>5. a.status # expected => failure'.status = a.status
  BY <1>2 DEF Explained
<1> QED BY <1>1, <1>2, <1>3, <1>4, <1>5 DEF ExplainedInvariant, FailureExplained, CredentialCodes

\* What the caller is told of a credential, by the status and the version.
CredentialCode(version, status) ==
  CASE status \in {"403", "404"}              -> "CredentialInvalidStatus"
    [] version = "1.0.0" /\ status = "201"    -> "CredentialIssuingNotSynchronous"
    [] OTHER                                  -> "CredentialRequestFailed"

LEMMA CredentialCase ==
  ASSUME NEW a \in Answers, a.status # "200", call.version = "1.0.0" \/ a.status # "202"
  PROVE  /\ CredentialError(a).status = a.status
         /\ CredentialError(a).code = CredentialCode(call.version, a.status)
<1> DEFINE version == call.version
           codes == IF version = "1.0.0" THEN {"201", "403", "404", "*"} ELSE {"403", "404", "*"}
           cases == [s \in codes |-> CredentialCode(version, s)]
           exact == {s \in DOMAIN cases : s = a.status}
           match == IF exact # {} THEN exact ELSE DOMAIN cases \cap {"*"}
           chosen == CHOOSE s \in match : TRUE
           class == IF version = "1.0.0" THEN "UnexpectedStatusCodeError"
                                         ELSE "SdkUnexpectedStatusCode"
           error == StatusError(class, "UnexpectedStatusCode", a.status, a.body)
<1>1. match # {} /\ chosen \in match /\ match \subseteq codes
  OBVIOUS
<1>2. IF a.status \in codes THEN chosen = a.status ELSE chosen = "*"
  BY <1>1
<1>3. chosen \in codes /\ cases[chosen] = CredentialCode(version, a.status)
  <2>1. \/ chosen = a.status
        \/ chosen = "*" /\ a.status \notin codes
    BY <1>2
  <2> QED BY <1>1, <2>1 DEF CredentialCode
<1>4. HasStatusOrThrow("200", class, a) = error
  BY DEF HasStatusOrThrow, UnexpectedStatus, DefaultCode
<1>5. error.status = a.status /\ error.reason = a.body /\ error.class = class
  BY DEF StatusError
<1>6. BuildFrom("IssuerResponseError", cases, error)
        = StatusError("IssuerResponseError", cases[chosen], a.status, a.body)
  <2> HIDE DEF error
  <2> QED BY <1>1, <1>5 DEF BuildFrom
<1>7. BuildFrom("IssuerResponseError", cases, error) # NoError
  <2> HIDE DEF cases, chosen, error
  <2> QED BY <1>6 DEF StatusError, NoError
<1>8. CredentialError(a) = BuildFrom("IssuerResponseError", cases, error)
  <2>1. CASE version = "1.0.0"
    <3>1. cases = [s \in {"201", "403", "404", "*"} |->
                     CASE s = "201" -> "CredentialIssuingNotSynchronous"
                       [] s = "*"   -> "CredentialRequestFailed"
                       [] OTHER     -> InvalidStatusCases[s]]
      BY <2>1 DEF CredentialCode, InvalidStatusCases
    <3> HIDE DEF cases, error
    <3>2. HandleObtainCredentialErrorV1_0(HasStatusOrThrow("200", class, a))
            = BuildFrom("IssuerResponseError", cases, error)
      BY <1>4, <1>5, <2>1, <3>1 DEF HandleObtainCredentialErrorV1_0, Handled, InstanceOf
    <3> QED BY <1>7, <2>1, <3>2 DEF CredentialError, CredentialErrorV1_0
  <2>2. CASE version # "1.0.0"
    <3>1. cases = [s \in {"403", "404", "*"} |->
                     IF s = "*" THEN "CredentialRequestFailed" ELSE InvalidStatusCases[s]]
      BY <2>2 DEF CredentialCode, InvalidStatusCases
    <3> HIDE DEF cases, error
    <3>2. HandleObtainCredentialErrorV1_3(HasStatusOrThrow("200", class, a))
            = BuildFrom("IssuerResponseError", cases, error)
      BY <1>4, <1>5, <2>2, <3>1 DEF HandleObtainCredentialErrorV1_3, Handled, InstanceOf
    <3> QED BY <2>2, <3>2 DEF CredentialError, CredentialErrorV1_3
  <2> QED BY <2>1, <2>2
<1> HIDE DEF cases, chosen, error
<1> QED BY <1>3, <1>6, <1>8 DEF StatusError

LEMMA CredentialIssued ==
  ASSUME NEW a \in Answers, a.status = "200"
  PROVE  CredentialError(a) \in
           {NoError, Failure("ValidationFailed"), Failure("SdkValidationError")}
<1>1. HandleObtainCredentialErrorV1_0(
        HasStatusOrThrow("200", "UnexpectedStatusCodeError", a)) = NoError
  BY DEF HasStatusOrThrow, HandleObtainCredentialErrorV1_0, Handled, InstanceOf, PartyErrors,
         NoError, StatusError
<1> QED BY <1>1 DEF CredentialError, CredentialErrorV1_0, CredentialErrorV1_3

\* A verification ends with an error of its own, or with none.
LEMMA VerificationError ==
  ASSUME NEW config, NEW doc, NEW context \in Contexts, NEW root
  PROVE  /\ Unanswered(VerifyAndParseCredentialV1_0(config, IssuerKeys, doc, context, root).error)
         /\ Unanswered(VerifyAndParseCredentialV1_3(config, IssuerKeys, doc, context, root).error)
<1>1. \A error : Rejected(error).error = error
  BY DEF Rejected
<1>2. \A c, r : Unanswered(VerifyAndParseCredentialSdJwt(config, IssuerKeys, doc, c, r).error)
  <2> SUFFICES ASSUME NEW c, NEW r
               PROVE  Unanswered(VerifyAndParseCredentialSdJwt(config, IssuerKeys, doc, c, r).error)
    OBVIOUS
  <2> DEFINE verified == VerifyCredentialSdJwt(doc, IssuerKeys, c.holderKey)
             claims   == ParseCredentialSdJwt(config, doc.nodes, c)
             chained  == VerifyX509Chain(doc, r)
  <2>1. Unanswered(verified) /\ Unanswered(chained)
    BY OwnErrors DEF VerifyCredentialSdJwt, VerifyX509Chain
  <2>2. Unanswered(claims.error)
    <3>1. claims.error \in {Failure("IoWalletError"), NoError}
      BY DEF ParseCredentialSdJwt
    <3> QED BY <3>1, OwnErrors
  <2>3. VerifyAndParseCredentialSdJwt(config, IssuerKeys, doc, c, r) \in
          {Rejected(verified), Rejected(chained), claims, Rejected(Failure("IoWalletError")),
           Rejected(Failure("MissingX509CertsError"))}
    <3> HIDE DEF verified, claims, chained
    <3> QED BY DEF VerifyAndParseCredentialSdJwt, verified, claims, chained
  <2> HIDE DEF verified, claims, chained
  <2> QED BY <1>1, <2>1, <2>2, <2>3, OwnErrors
<1>3. Unanswered(VerifyAndParseCredentialMDoc(config, doc, context, root).error)
  <2> DEFINE verified == VerifyCredentialMDoc(doc, root, context.holderKey)
             claims   == ParseCredentialMDoc(config, doc.nodes, context)
  <2>1. Unanswered(verified)
    BY OwnErrors DEF VerifyCredentialMDoc, VerifyMdoc, VerifyX509Chain
  <2>2. Unanswered(claims.error)
    <3>1. claims.error \in {Failure("IoWalletError"), NoError}
      BY DEF ParseCredentialMDoc
    <3> QED BY <3>1, OwnErrors
  <2>3. VerifyAndParseCredentialMDoc(config, doc, context, root) \in
          {Rejected(verified), claims, Rejected(Failure("IoWalletError"))}
    <3> HIDE DEF verified, claims
    <3> QED BY DEF VerifyAndParseCredentialMDoc, verified, claims
  <2> HIDE DEF verified, claims
  <2> QED BY <1>1, <2>1, <2>2, <2>3, OwnErrors
<1>4. Unanswered(Rejected(Failure("IoWalletError")).error)
  BY <1>1, OwnErrors
<1> QED BY <1>2, <1>3, <1>4 DEF VerifyAndParseCredentialV1_0, VerifyAndParseCredentialV1_3

LEMMA RedirectErrors ==
  ASSUME NEW q
  PROVE  /\ Unanswered(ParseAuthorizationResponse(q))
         /\ Unanswered(ChallengeV1_0(q)) /\ Unanswered(ChallengeV1_3(q))
BY OwnErrors DEF ParseAuthorizationResponse, ChallengeV1_0, ChallengeV1_3

\* What a call adds of its own to an answer that it accepts.
LEMMA ExplainedOrOwn ==
  ASSUME NEW error, NEW expected, NEW a, Explained(error, expected, a),
         NEW own, Unanswered(own)
  PROVE  Explained(IF error = NoError THEN own ELSE error, expected, a)
BY DEF Explained, Unanswered

LEMMA ObtainExplained ==
  ASSUME ExplainedInvariant, NEW a \in Answers, NEW n \in BOOLEAN, ObtainCredential(a, n)
  PROVE  ExplainedInvariant'
<1> DEFINE error == IF CredentialError(a) = NoError THEN CredentialMissing(n)
                                                    ELSE CredentialError(a)
<1>0. EndsWith(error, "verify")
  BY DEF ObtainCredential
<1>1. /\ step = "credential" /\ UNCHANGED call
      /\ answered' = [endpoint |-> "credential", status |-> a.status]
  BY DEF ObtainCredential, Received
<1>2. failure' = error /\ step' = IF failure' = NoError THEN "verify" ELSE "failed"
  BY <1>0 DEF EndsWith
<1>3. CASE a.status = "200"
  <2>1. failure' \in {NoError, Failure("ValidationFailed"), Failure("SdkValidationError"),
                      Failure("IoWalletError"), Failure("TypeError")}
    BY <1>2, <1>3, CredentialIssued DEF CredentialMissing
  <2>2. Unanswered(failure')
    BY <2>1, OwnErrors
  <2> QED BY <1>1, <1>2, <1>3, <2>2
          DEF ExplainedInvariant, FailureExplained, Unanswered, CredentialCodes
<1>4. CASE a.status = "202" /\ call.version # "1.0.0"
  <2>1. CredentialError(a) \in {Failure("IoWalletError"), Failure("SdkValidationError")}
    BY <1>4 DEF CredentialError, CredentialErrorV1_3
  <2>2. failure' \in {Failure("IoWalletError"), Failure("SdkValidationError")}
    BY <1>2, <2>1, OwnErrors
  <2>3. Unanswered(failure') /\ step' = "failed"
    BY <1>2, <2>2, OwnErrors
  <2>4. failure'.class \in {"IoWalletError", "SdkValidationError"}
    BY <2>2 DEF Failure, StatusError
  <2> QED BY <1>1, <1>4, <2>3, <2>4
          DEF ExplainedInvariant, FailureExplained, Unanswered, CredentialCodes
<1>5. CASE a.status # "200" /\ (call.version = "1.0.0" \/ a.status # "202")
  <2>1. /\ CredentialError(a).status = a.status
        /\ CredentialError(a).code = CredentialCode(call.version, a.status)
    BY <1>5, CredentialCase
  <2>2. CredentialError(a) # NoError
    BY <2>1 DEF NoError, StatusError, CredentialCode
  <2>3. failure' = CredentialError(a) /\ step' = "failed"
    BY <1>2, <2>2
  <2>4. /\ answered'.endpoint = "credential" /\ answered'.status = a.status
        /\ call'.version = call.version /\ a.status \in Statuses
    BY <1>1 DEF Answers
  <2>5. failure'.status = a.status /\ failure'.code = CredentialCode(call.version, a.status)
    BY <2>1, <2>3
  <2> QED BY <1>5, <2>3, <2>4, <2>5 DEF ExplainedInvariant, FailureExplained, CredentialCode
<1> QED BY <1>3, <1>4, <1>5

LEMMA ExplainedStep ==
  ASSUME ExplainedInvariant, FlowNext
  PROVE  ExplainedInvariant'
<1>1. ASSUME NEW v \in Versions, NEW ids \in Requests, NEW p \in {"none", "mrtd-pop"},
             NEW s \in SUBSET {"query", "form_post.jwt"}, StartUserAuthorization(v, ids, p, s)
      PROVE  ExplainedInvariant'
  <2>1. Unanswered(RequestError(v, ids, s))
    BY OwnErrors DEF RequestError
  <2>2. step = "idle" /\ EndsWith(RequestError(v, ids, s), "par") /\ UNCHANGED answered
    BY <1>1 DEF StartUserAuthorization
  <2> QED BY <2>1, <2>2, UnansweredStep
<1>2. CASE BuildAuthorizationUrl
  BY <1>2 DEF BuildAuthorizationUrl, ExplainedInvariant, FailureExplained
<1>3. ASSUME NEW q \in Queries, CompletePidUserAuthorizationWithQueryMode(q)
      PROVE  ExplainedInvariant'
  <2>1. /\ step = "redirect" /\ EndsWith(ParseAuthorizationResponse(q), "token")
        /\ UNCHANGED answered
    BY <1>3 DEF CompletePidUserAuthorizationWithQueryMode
  <2> QED BY <2>1, RedirectErrors, UnansweredStep
<1>4. ASSUME NEW q \in Queries, ContinueWithMRTDPoPChallenge(q)
      PROVE  ExplainedInvariant'
  <2>1. PICK error \in {ChallengeV1_0(q), ChallengeV1_3(q)} : EndsWith(error, "redirect")
    BY <1>4 DEF ContinueWithMRTDPoPChallenge
  <2>2. step = "redirect" /\ UNCHANGED answered
    BY <1>4 DEF ContinueWithMRTDPoPChallenge
  <2> QED BY <2>1, <2>2, RedirectErrors, UnansweredStep
<1>5. ASSUME NEW a \in Answers, MakeParRequest(a)
      PROVE  ExplainedInvariant'
  <2>1. /\ Explained(ParErrorV1_0(a), "201", a) /\ Explained(ParErrorV1_3(a), "201", a)
    BY AnswerExplained DEF ParErrorV1_0, ParErrorV1_3, SdkError
  <2>2. PICK error \in {ParErrorV1_0(a), ParErrorV1_3(a)} : EndsWith(error, "authorize")
    BY <1>5 DEF MakeParRequest
  <2>3. step = "par" /\ Received("par", a)
    BY <1>5 DEF MakeParRequest
  <2> QED BY <2>1, <2>2, <2>3, AnsweredStep
<1>6. ASSUME NEW a \in Answers, PostResponseV1_0(a)
      PROVE  ExplainedInvariant'
  <2>1. step = "present" /\ EndsWith(IssuerError("200", a), "form") /\ Received("response", a)
    BY <1>6 DEF PostResponseV1_0
  <2>2. Explained(IssuerError("200", a), "200", a)
    BY AnswerExplained DEF IssuerError
  <2> QED BY <2>1, <2>2, AnsweredStep
<1>7. CASE \E a \in Answers, n \in BOOLEAN : ObtainCredential(a, n)
  BY <1>7, ObtainExplained
<1>8. ASSUME NEW a \in Answers, NEW id \in UNION Requests,
             NEW i \in Identifiers \cup {"none"}, NEW b \in BOOLEAN, NEW w \in BOOLEAN,
             CreateNonceProof(id, i, b, w, a)
      PROVE  ExplainedInvariant'
  <2> DEFINE error     == AnswerError("200", "UnexpectedStatusCodeError", "ZodError", a)
             forbidden == RequestForbidden(id, i, b, w)
             asked     == IF call.version = "1.0.0" THEN ~b ELSE forbidden = NoError
  <2>1. Explained(error, "200", a)
    BY AnswerExplained
  <2>2. /\ EndsWith(IF asked /\ error # NoError THEN error ELSE forbidden, "credential")
        /\ IF asked THEN Received("nonce", a) ELSE UNCHANGED answered
        /\ step = "obtain"
    BY <1>8 DEF CreateNonceProof
  <2>3. Unanswered(forbidden)
    BY OwnErrors DEF RequestForbidden
  <2> HIDE DEF error, forbidden, asked
  <2>4. CASE asked
    <3>1. Explained(IF error = NoError THEN forbidden ELSE error, "200", a)
      BY <2>1, <2>3, ExplainedOrOwn
    <3>2. EndsWith(IF error = NoError THEN forbidden ELSE error, "credential")
      BY <2>2, <2>4
    <3> QED BY <2>2, <2>4, <3>1, <3>2, AnsweredStep
  <2>5. CASE ~asked
    BY <2>2, <2>3, <2>5, UnansweredStep
  <2> QED BY <2>4, <2>5
<1>9. ASSUME NEW a \in Answers, NEW d \in Grants, AuthorizeAccess(a, d)
      PROVE  ExplainedInvariant'
  <2>1. Explained(TokenErrorV1_0(a), "200", a)
    BY AnswerExplained DEF TokenErrorV1_0, IssuerError
  <2>2. Explained(TokenErrorV1_3(a, d), "200", a)
    <3>1. Explained(SdkError("200", a), "200", a)
      BY AnswerExplained DEF SdkError
    <3>2. TokenErrorV1_3(a, d)
            = IF SdkError("200", a) = NoError
              THEN IF d = {} THEN Failure("IoWalletError") ELSE NoError
              ELSE SdkError("200", a)
      BY DEF TokenErrorV1_3
    <3> QED BY <3>1, <3>2, OwnErrors, ExplainedOrOwn
  <2>3. PICK error \in {TokenErrorV1_0(a), TokenErrorV1_3(a, d)} : EndsWith(error, "obtain")
    BY <1>9 DEF AuthorizeAccess
  <2>4. step = "token" /\ Received("token", a)
    BY <1>9 DEF AuthorizeAccess
  <2> QED BY <2>1, <2>2, <2>3, <2>4, AnsweredStep
<1>10. ASSUME NEW a \in Answers, NEW q \in Queries, GetJwtFromFormPost(a, q)
       PROVE  ExplainedInvariant'
  <2> DEFINE error == IF IssuerError("200", a) = NoError
                      THEN ParseAuthorizationResponse(q) ELSE IssuerError("200", a)
  <2>1. Explained(IssuerError("200", a), "200", a)
    BY AnswerExplained DEF IssuerError
  <2>2. Explained(error, "200", a)
    BY <2>1, RedirectErrors, ExplainedOrOwn
  <2>3. step = "form" /\ EndsWith(error, "token") /\ Received("form", a)
    BY <1>10 DEF GetJwtFromFormPost
  <2> HIDE DEF error
  <2> QED BY <2>2, <2>3, AnsweredStep
<1>11. ASSUME NEW a \in Answers, NEW s \in IssuerKeys \cup {"other"},
              GetRequestedCredentialToBePresented(a, s)
       PROVE  ExplainedInvariant'
  <2>1. Explained(ObjectErrorV1_0(a), "200", a)
    BY AnswerExplained DEF ObjectErrorV1_0, IssuerError
  <2>2. Explained(ObjectErrorV1_3(a, s), "200", a)
    <3> DEFINE error == AnswerError("200", "IssuerResponseError", "SdkValidationError", a)
    <3>1. Explained(error, "200", a)
      BY AnswerExplained
    <3>2. ObjectErrorV1_3(a, s)
            = IF error = NoError
              THEN IF s \notin IssuerKeys THEN Failure("Oauth2JwtVerifyError") ELSE NoError
              ELSE error
      BY DEF ObjectErrorV1_3
    <3> HIDE DEF error
    <3> QED BY <3>1, <3>2, OwnErrors, ExplainedOrOwn
  <2>3. PICK error \in {ObjectErrorV1_0(a), ObjectErrorV1_3(a, s)} : EndsWith(error, "present")
    BY <1>11 DEF GetRequestedCredentialToBePresented
  <2>4. step = "authorize" /\ Received("object", a)
    BY <1>11 DEF GetRequestedCredentialToBePresented
  <2> QED BY <2>1, <2>2, <2>3, <2>4, AnsweredStep
<1>12. ASSUME NEW a \in Answers, NEW s \in IssuerKeys \cup {"other"},
              CompleteWithFormPostJwtMode(a, s)
       PROVE  ExplainedInvariant'
  <2> DEFINE error == IF IssuerKeys = {} THEN Failure("IoWalletError")
                      ELSE IF SdkError("200", a) # NoError THEN SdkError("200", a)
                      ELSE IF s \notin IssuerKeys THEN Failure("Oauth2JwtVerifyError")
                      ELSE NoError
  <2>1. step = "present" /\ EndsWith(error, "token")
    BY <1>12 DEF CompleteWithFormPostJwtMode
  <2>2. CASE IssuerKeys = {}
    <3>1. error = Failure("IoWalletError")
      BY <2>2
    <3>2. UNCHANGED answered
      BY <1>12, <2>2 DEF CompleteWithFormPostJwtMode
    <3> HIDE DEF error
    <3> QED BY <2>1, <3>1, <3>2, OwnErrors, UnansweredStep
  <2>3. CASE IssuerKeys # {}
    <3>1. Explained(SdkError("200", a), "200", a)
      BY AnswerExplained DEF SdkError
    <3>2. error = IF SdkError("200", a) = NoError
                  THEN IF s \notin IssuerKeys THEN Failure("Oauth2JwtVerifyError") ELSE NoError
                  ELSE SdkError("200", a)
      BY <2>3
    <3>3. Received("response", a)
      BY <1>12, <2>3 DEF CompleteWithFormPostJwtMode
    <3> HIDE DEF error
    <3>4. Explained(error, "200", a)
      BY <3>1, <3>2, OwnErrors, ExplainedOrOwn
    <3> QED BY <2>1, <3>3, <3>4, AnsweredStep
  <2> QED BY <2>2, <2>3
<1>13. ASSUME NEW a \in Answers, NEW r \in BOOLEAN, NEW f \in {"none", "client", "other"},
              NEW q \in Queries, CompleteEaaUserAuthorizationWithQueryMode(a, r, f, q)
       PROVE  ExplainedInvariant'
  <2>1. Explained(SdkError("200", a), "200", a)
    BY AnswerExplained DEF SdkError
  <2> DEFINE error == IF SdkError("200", a) # NoError THEN SdkError("200", a)
                      ELSE IF ~r \/ f # "client" THEN Failure("AuthorizationError")
                      ELSE ParseAuthorizationResponse(q)
  <2>2. step = "present" /\ EndsWith(error, "token") /\ Received("response", a)
    BY <1>13 DEF CompleteEaaUserAuthorizationWithQueryMode
  <2>3. error = IF SdkError("200", a) = NoError
                THEN IF ~r \/ f # "client" THEN Failure("AuthorizationError")
                                           ELSE ParseAuthorizationResponse(q)
                ELSE SdkError("200", a)
    OBVIOUS
  <2> HIDE DEF error
  <2>4. Explained(error, "200", a)
    BY <2>1, <2>3, OwnErrors, RedirectErrors, ExplainedOrOwn
  <2> QED BY <2>2, <2>4, AnsweredStep
<1>14. ASSUME step = "verify", NEW doc, NEW claims, NEW c \in Contexts,
              NEW root \in {"none", "root"}, VerifyAndParseCredential(doc, claims, c, root)
       PROVE  ExplainedInvariant'
  <2> DEFINE config == [format |-> FormatOf[issued.id], claims |-> claims]
  <2>1. PICK error : EndsWith(error, "done") /\ Unanswered(error)
    <3>1. PICK error \in {VerifyAndParseCredentialV1_0(config, IssuerKeys, doc, c, root).error,
                          VerifyAndParseCredentialV1_3(config, IssuerKeys, doc, c, root).error} :
            EndsWith(error, "done")
      BY <1>14 DEF VerifyAndParseCredential
    <3> HIDE DEF config
    <3> QED BY <3>1, VerificationError
  <2>2. UNCHANGED answered
    BY <1>14 DEF VerifyAndParseCredential
  <2> QED BY <1>14, <2>1, <2>2, UnansweredStep
<1> QED BY <1>1, <1>2, <1>3, <1>4, <1>5, <1>6, <1>7, <1>8, <1>9, <1>10, <1>11, <1>12, <1>13,
           <1>14 DEF FlowNext

\* Whatever the issuer answers and at whatever call, the error that a flow ends
\* with has the status of the answer, and tells what the credential endpoint
\* said as the version tells it: invalid, deferred (by a code in 1.0.0 alone),
\* failed otherwise.
THEOREM ExplainsFailures == LibrarySpec => []FailureExplained
<1>1. LibraryInit => ExplainedInvariant
  BY OwnErrors DEF LibraryInit, FlowInit, ExplainedInvariant, FailureExplained, Unanswered,
                   CredentialCodes
<1>2. ExplainedInvariant /\ [LibraryNext]_libraryVars => ExplainedInvariant'
  <2> SUFFICES ASSUME ExplainedInvariant, [LibraryNext]_libraryVars PROVE ExplainedInvariant'
    OBVIOUS
  <2>1. CASE Issues
    BY <2>1, ExplainedStep DEF Issues
  <2>2. CASE UNCHANGED flowVars
    BY <2>2 DEF flowVars, ExplainedInvariant, FailureExplained
  <2> QED BY <2>1, <2>2 DEF LibraryNext, Presents, Provides, Catalogues, Offered, libraryVars
<1>3. ExplainedInvariant => FailureExplained
  BY DEF ExplainedInvariant
<1> QED BY <1>1, <1>2, <1>3, PTL DEF LibrarySpec

(***************************************************************************)
(* The claims that are shown.                                              *)
(***************************************************************************)

LEMMA PatternOfPath ==
  ASSUME NEW S, NEW p \in Seq(S)
  PROVE  /\ Pattern(p) \in Seq(S \cup {AnyItem}) /\ Len(Pattern(p)) = Len(p)
         /\ \A i \in 1 .. Len(p) : Pattern(p)[i] = IF p[i] \in Items THEN AnyItem ELSE p[i]
BY DEF Pattern

\* A path that is a claim of the configuration is processed to its end: every
\* key on the way is one through which that claim goes.
LEMMA PathProcessed ==
  ASSUME NEW config, NEW nodes, NEW S, NEW p \in Seq(S), p # <<>>, p \in DOMAIN nodes,
         NEW c \in DisplayableClaims(config), c.path = Pattern(p)
  PROVE  p \in ProcessLevel(config, nodes)
<1> SUFFICES ASSUME NEW n \in 1 .. Len(p), ~IsItem(SubSeq(p, 1, n))
             PROVE  ConfiguredKey(config, SubSeq(p, 1, n))
  BY DEF ProcessLevel, Steps
<1> DEFINE q      == SubSeq(p, 1, n)
           front  == SubSeq(q, 1, n - 1)
           parent == Pattern(front)
<1>1. q \in Seq(S) /\ Len(q) = n /\ \A i \in 1 .. n : q[i] = p[i]
  OBVIOUS
<1>2. front \in Seq(S) /\ Len(front) = n - 1 /\ \A i \in 1 .. n - 1 : front[i] = p[i]
  BY <1>1
<1>3. Front(q) = front /\ Last(q) = p[n] /\ p[n] \notin Items
  BY <1>1 DEF Front, Last, IsItem
<1>4. /\ c.path \in Seq(S \cup {AnyItem}) /\ Len(c.path) = Len(p)
      /\ \A i \in 1 .. Len(p) : c.path[i] = IF p[i] \in Items THEN AnyItem ELSE p[i]
  BY PatternOfPath
<1> HIDE DEF q, front
<1>5. /\ parent \in Seq(S \cup {AnyItem}) /\ Len(parent) = n - 1
      /\ \A i \in 1 .. n - 1 : parent[i] = IF p[i] \in Items THEN AnyItem ELSE p[i]
  BY <1>2, PatternOfPath
<1> HIDE DEF parent
<1>6. IsPrefixOf(parent, c.path)
  <2>1. Len(parent) < Len(c.path) /\ Len(parent) = n - 1
    BY <1>4, <1>5
  <2>2. SubSeq(parent, 1, n - 1) = SubSeq(c.path, 1, n - 1)
    BY <1>4, <1>5
  <2> QED BY <2>1, <2>2 DEF IsPrefixOf, IsPrefix
<1>7. c.path[Len(parent) + 1] = Last(q)
  BY <1>3, <1>4, <1>5
<1> QED BY <1>3, <1>6, <1>7 DEF ConfiguredKey, parent, q

\* The texts of a path that has one claim.
LEMMA TextsOfPath ==
  ASSUME NEW config, NEW c \in DisplayableClaims(config),
         \A d \in config.claims : d.path = c.path => d = c
  PROVE  GetDisplayNames(config, c.path) = c.display
<1>1. {d \in DisplayableClaims(config) : IsPathEqual(d.path, c.path)} = {c}
  BY DEF DisplayableClaims, IsPathEqual
<1> QED BY <1>1 DEF GetDisplayNames

LEMMA ClaimShown ==
  ASSUME NEW config, \A c, d \in config.claims : c.path = d.path => c = d,
         NEW nodes, NEW S, NEW p \in Seq(S), p # <<>>, p \in DOMAIN nodes,
         NEW c \in config.claims, c.display # {}, Pattern(p) = c.path, NEW context,
         ParseCredentialSdJwt(config, nodes, context).error = NoError
  PROVE  LET shown == ParseCredentialSdJwt(config, nodes, context).claims
         IN  p \in DOMAIN shown /\ (IsItem(p) \/ shown[p] = c.display)
<1> DEFINE processed == ProcessLevel(config, nodes)
           claims == [q \in IF context.includeUndefined THEN DOMAIN nodes ELSE processed |->
                        IF q \in processed THEN LocalizedName(config, nodes, q)
                        ELSE IF Steps(q) \subseteq processed \cup {q} THEN {Last(q)}
                        ELSE {}]
<1>1. p \in processed
  BY PathProcessed DEF DisplayableClaims
<1>2. LocalizedName(config, nodes, p) = IF IsItem(p) THEN {} ELSE c.display
  <2>1. GetDisplayNames(config, Pattern(p)) = c.display
    BY TextsOfPath DEF DisplayableClaims
  <2> QED BY <2>1 DEF LocalizedName
<1>3. ParseCredentialSdJwt(config, nodes, context).claims = claims
  <2>1. Failure("IoWalletError") # NoError
    BY OwnErrors
  <2> QED BY <2>1 DEF ParseCredentialSdJwt
<1>4. p \in DOMAIN claims /\ claims[p] = LocalizedName(config, nodes, p)
  <2> HIDE DEF processed
  <2> QED BY <1>1
<1> HIDE DEF claims
<1> QED BY <1>2, <1>3, <1>4

\* A verification of an SD-JWT that succeeds returns what was parsed.
LEMMA ParsedIsShown ==
  ASSUME NEW config, config.format = "dc+sd-jwt", NEW doc, NEW context, NEW root, NEW result,
         \/ result = VerifyAndParseCredentialV1_0(config, IssuerKeys, doc, context, root)
         \/ result = VerifyAndParseCredentialV1_3(config, IssuerKeys, doc, context, root),
         result.error = NoError
  PROVE  \E c : result = ParseCredentialSdJwt(config, doc.nodes, c)
<1>1. \A error : Rejected(error).error = error
  BY DEF Rejected
<1>2. \A c, r : VerifyAndParseCredentialSdJwt(config, IssuerKeys, doc, c, r).error = NoError =>
        VerifyAndParseCredentialSdJwt(config, IssuerKeys, doc, c, r)
          = ParseCredentialSdJwt(config, doc.nodes, c)
  <2> SUFFICES ASSUME NEW c, NEW r,
                      VerifyAndParseCredentialSdJwt(config, IssuerKeys, doc, c, r).error = NoError
               PROVE  VerifyAndParseCredentialSdJwt(config, IssuerKeys, doc, c, r)
                        = ParseCredentialSdJwt(config, doc.nodes, c)
    OBVIOUS
  <2> DEFINE verified == VerifyCredentialSdJwt(doc, IssuerKeys, c.holderKey)
             claims   == ParseCredentialSdJwt(config, doc.nodes, c)
             chain    == IF r = "none" THEN Failure("IoWalletError")
                         ELSE IF doc.x5c = "none" THEN Failure("MissingX509CertsError")
                         ELSE VerifyX509Chain(doc, r)
  <2>1. VerifyAndParseCredentialSdJwt(config, IssuerKeys, doc, c, r)
          = IF verified # NoError THEN Rejected(verified)
            ELSE IF c.validateChain = "yes" /\ chain # NoError THEN Rejected(chain)
            ELSE IF claims.error # NoError \/ doc.exp THEN claims
            ELSE Rejected(Failure("IoWalletError"))
    BY DEF VerifyAndParseCredentialSdJwt
  <2>2. Failure("IoWalletError") # NoError
    BY OwnErrors
  <2> HIDE DEF verified, claims, chain
  <2>3. VerifyAndParseCredentialSdJwt(config, IssuerKeys, doc, c, r) = claims
    BY <1>1, <2>1, <2>2
  <2> QED BY <2>3 DEF claims
<1> QED BY <1>2 DEF VerifyAndParseCredentialV1_0, VerifyAndParseCredentialV1_3

\* No other call ends a flow.
LEMMA EndsVerified ==
  ASSUME FlowNext, step' = "done"
  PROVE  /\ step = "verify"
         /\ \E doc \in IssuedDocuments[FormatOf[issued.id]],
               claims \in ConfiguredClaims[FormatOf[issued.id]],
               c \in Contexts, root \in {"none", "root"} :
              VerifyAndParseCredential(doc, claims, c, root)
BY DEF FlowNext, EndsWith, StartUserAuthorization, BuildAuthorizationUrl, MakeParRequest,
       CompletePidUserAuthorizationWithQueryMode, ContinueWithMRTDPoPChallenge,
       PostResponseV1_0, GetJwtFromFormPost, ObtainCredential, CreateNonceProof,
       AuthorizeAccess, GetRequestedCredentialToBePresented, CompleteWithFormPostJwtMode,
       CompleteEaaUserAuthorizationWithQueryMode

LEMMA ShownStep ==
  ASSUME FlowInvariant, FlowNext
  PROVE  ClaimsShown'
<1> SUFFICES ASSUME step' = "done", FormatOf'[issued'.id] = "dc+sd-jwt",
                    NEW c \in issued'.claims, NEW p \in DOMAIN document'.nodes,
                    c.display # {}, Pattern(p) = c.path
             PROVE  p \in DOMAIN parsed'.claims /\ (IsItem(p) \/ parsed'.claims[p] = c.display)
  BY DEF ClaimsShown
<1>1. PICK doc \in IssuedDocuments[FormatOf[issued.id]],
           claims \in ConfiguredClaims[FormatOf[issued.id]],
           context \in Contexts, root \in {"none", "root"} :
             VerifyAndParseCredential(doc, claims, context, root)
  BY EndsVerified
<1> DEFINE config == [format |-> FormatOf[issued.id], claims |-> claims]
<1>2. /\ issued' = [id |-> issued.id, identifier |-> issued.identifier, batch |-> issued.batch,
                    claims |-> claims]
      /\ document' = doc
  BY <1>1 DEF VerifyAndParseCredential, FlowInvariant
<1>3. /\ \/ parsed' = VerifyAndParseCredentialV1_0(config, IssuerKeys, doc, context, root)
         \/ parsed' = VerifyAndParseCredentialV1_3(config, IssuerKeys, doc, context, root)
      /\ parsed'.error = NoError
  BY <1>1 DEF VerifyAndParseCredential, EndsWith
<1>4. config.format = "dc+sd-jwt" /\ config.claims = claims /\ FormatOf[issued.id] = "dc+sd-jwt"
  BY <1>2
<1> HIDE DEF config
<1>5. PICK used : parsed' = ParseCredentialSdJwt(config, doc.nodes, used)
  BY <1>3, <1>4, ParsedIsShown
<1>6. c \in config.claims /\ p \in DOMAIN doc.nodes
  BY <1>2, <1>4
<1>7. claims \in ConfiguredClaims["dc+sd-jwt"] /\ doc \in IssuedDocuments["dc+sd-jwt"]
  BY <1>1, <1>4
<1>8. \A d, e \in config.claims : d.path = e.path => d = e
  BY <1>4, <1>7, DocumentAssumption
<1>9. p # <<>> /\ p \in Seq({p[i] : i \in DOMAIN p})
  <2>1. \A q \in DOMAIN doc.nodes : q # <<>> /\ q \in Seq({q[i] : i \in DOMAIN q})
    BY <1>7, DocumentAssumption, Zenon
  <2> QED BY <1>6, <2>1, Zenon
<1> QED BY <1>3, <1>5, <1>6, <1>8, <1>9, ClaimShown

\* For any document and any configuration with one claim for a path, a flow that
\* ends shows every attribute to which a claim leads, under the texts of it.
THEOREM ShowsClaims == LibrarySpec => []ClaimsShown
<1> DEFINE Inv == FlowInvariant /\ ClaimsShown
<1>1. LibraryInit => Inv
  BY DEF LibraryInit, FlowInit, FlowInvariant, CredentialAuthorised, NotIssued, ClaimsShown
<1>2. Inv /\ [LibraryNext]_libraryVars => Inv'
  <2> SUFFICES ASSUME Inv, [LibraryNext]_libraryVars PROVE Inv'
    OBVIOUS
  <2>1. CASE Issues
    BY <2>1, FlowStep, ShownStep DEF Issues
  <2>2. CASE UNCHANGED flowVars
    BY <2>2 DEF flowVars, FlowInvariant, CredentialAuthorised, ClaimsShown, Listed
  <2> QED BY <2>1, <2>2 DEF LibraryNext, Presents, Provides, Catalogues, Offered, libraryVars
<1>3. Inv => ClaimsShown
  OBVIOUS
<1> QED BY <1>1, <1>2, <1>3, PTL DEF LibrarySpec
=============================================================================
