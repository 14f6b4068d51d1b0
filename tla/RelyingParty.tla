---------------------------- MODULE RelyingParty ----------------------------
(***************************************************************************)
(* The calls of the library that make up one remote presentation, in both  *)
(* versions of the specification: QR code, configuration and request       *)
(* object of the relying party, evaluation of its query, response or       *)
(* refusal.  The caller chooses the arguments, the relying parties their   *)
(* answers; a call that throws ends the flow.                              *)
(***************************************************************************)
EXTENDS Errors, Sequences, Naturals
LOCAL INSTANCE FiniteSetsExt

CONSTANTS Parties,        \* the relying parties, named by their client ids
          KeysOf,         \* the keys of each one: records of party, kid and use
          PartyVersions, PartyStatuses,
          RequestObjects, \* those that may be answered to the wallet
          HeldCredentials, AskedCredentials  \* lists: [vct, claims, keyTag], [vct, claims]

\* No party is the one of no configuration, and no status is a lost answer.
ASSUME RelyingPartyAssumption == "none" \notin Parties /\ "lost" \notin PartyStatuses

VARIABLES rpStep,    \* the next call
          qr,        \* version, client id and state of the QR code
          rpConf,    \* the configuration of the relying party, or NoConf
          request,   \* the request object, or NoRequest
          presented, \* by query: the credential and the claims presented
          response,  \* what was posted, and where: kind, uri, state, key
          rpFailure, \* the error thrown, or NoError
          rpAnswered \* the status of the last answer, or "lost"

rpVars == <<rpStep, qr, rpConf, request, presented, response, rpFailure, rpAnswered>>

NoConf == [subject |-> "none", keys |-> {}]
NoRequest == [client |-> "none"]
NoResponse == [kind |-> "none"]

RelyingPartyInit ==
  /\ rpStep = "idle" /\ qr = [client |-> "none"] /\ rpConf = NoConf
  /\ request = NoRequest /\ presented = <<>> /\ response = NoResponse
  /\ rpFailure = NoError /\ rpAnswered = "none"

CallEnds(error, next) ==
  /\ rpFailure' = error
  /\ rpStep' = IF error = NoError THEN next ELSE "failed"

PartyAnswers == [status : PartyStatuses, body : {"valid"}]

\* To a post there may be no answer at all.
LostAnswer == [status |-> "lost", body |-> "none"]
PostAnswers == PartyAnswers \cup {LostAnswer}

(* 01 to 03: the request *)

\* The state is optional in the QR code, the request_uri is not.
StartFlowFromQR(version, client, prefix, state, requestUri) ==
  /\ rpStep = "idle"
  /\ CallEnds(IF requestUri THEN NoError ELSE Failure("InvalidQRCodeError"), "request")
  /\ qr' = [version |-> version, client |-> client, prefix |-> prefix, state |-> state]
  /\ UNCHANGED <<rpConf, request, presented, response, rpAnswered>>

\* The caller names the relying party by a URL of its own choice; subject and
\* keys are those of the document found there, which nobody compares with it.
EvaluateRelyingPartyTrust(subject, keys) ==
  /\ rpStep = "request"
  /\ rpConf' = [subject |-> subject, keys |-> keys]
  /\ UNCHANGED <<rpStep, qr, request, presented, response, rpFailure, rpAnswered>>

\* By GET, or by POST with the capabilities of the wallet.
GetRequestObject(answer, object) ==
  /\ rpStep = "request"
  /\ CallEnds(IF qr.version = "1.0.0"
              THEN HasStatusOrThrow("200", "RelyingPartyResponseError", answer)
              ELSE MapSdkFetchAuthRequestError(
                     HasStatusOrThrow("200", "SdkUnexpectedStatusCode", answer)), "verify")
  /\ request' = IF rpFailure' = NoError THEN object ELSE request
  /\ rpAnswered' = answer.status
  /\ UNCHANGED <<qr, rpConf, presented, response>>

(* 05: its verification *)

InvalidRequestObject == Failure("InvalidRequestObjectError")

GetSigPublicKey(conf, kid) == {k \in conf.keys : k.kid = kid}

\* Faulty variant: the configuration may be that of another party.
IsRequestOfClient(client, object, conf) == client = object.client

IsClientIdMatch(client, object, conf) ==
  client = object.client /\ client = conf.subject

\* The signature by the key of the configuration that has its kid; then the
\* claims, the two client ids, and the state if the QR code had one.
VerifyRequestObjectV1_0 ==
  IF rpConf = NoConf THEN Failure("IoWalletError")
  ELSE IF /\ request.signer \in GetSigPublicKey(rpConf, request.signer.kid)
          /\ request.iss = qr.client
          /\ request.wellFormed
          /\ IsClientIdMatch(qr.client, request, rpConf)
          /\ qr.state \in {"none", request.state}
  THEN NoError
  ELSE InvalidRequestObject

\* The SDK takes the key from the header of the request object; its errors
\* are all mapped.  The prefix of the client id decides what it is compared
\* with: the hash of the leaf certificate, that is the signer; the client ids
\* of request object and configuration; or nothing.  The state is not compared.
VerifyRequestObjectV1_3 ==
  IF ~request.wellFormed THEN MapSdkRequestObjectError(Failure("SdkValidationError"))
  ELSE IF qr.prefix = "openid_federation" /\ rpConf = NoConf THEN Failure("IoWalletError")
  ELSE IF \/ qr.prefix = "x509_hash" /\ request.signer.party # qr.client
          \/ qr.prefix = "openid_federation" /\ ~IsClientIdMatch(qr.client, request, rpConf)
       THEN InvalidRequestObject
  ELSE NoError

\* Before it a caller of 1.3.3 may verify the certificates of the request.
VerifyAuthRequestCertificateChain(x5c, caRootCert) ==
  /\ rpStep = "verify" /\ qr.version = "1.3.3"
  /\ CallEnds(IF x5c = "none" THEN Failure("MissingX509CertsError")
              ELSE IF x5c = caRootCert THEN NoError
              ELSE Failure("X509ValidationError"), "verify")
  /\ UNCHANGED <<qr, rpConf, request, presented, response, rpAnswered>>

VerifyRequestObject ==
  /\ rpStep = "verify"
  /\ CallEnds(IF qr.version = "1.0.0" THEN VerifyRequestObjectV1_0 ELSE VerifyRequestObjectV1_3,
              "evaluate")
  /\ UNCHANGED <<qr, rpConf, request, presented, response, rpAnswered>>

(* 06: the credentials *)

\* The first credential that has what is asked for, and the one presented
\* for it: of those of the same type, the last one.
ValidCredentials(query, held) ==
  {i \in DOMAIN held : held[i].vct = query.vct /\ query.claims \subseteq held[i].claims}
CredentialByVct(vct, held) == held[Max({i \in DOMAIN held : held[i].vct = vct})]

CanBeSatisfied(queries, held) ==
  \A n \in DOMAIN queries : ValidCredentials(queries[n], held) # {}

EvaluateDcqlQuery(held, queries) ==
  /\ rpStep = "evaluate"
  /\ CallEnds(IF CanBeSatisfied(queries, held) THEN NoError ELSE Failure("CredentialsNotFoundError"),
              "prepare")
  /\ presented' =
       IF rpFailure' # NoError THEN presented
       ELSE [n \in DOMAIN queries |->
               [credential |-> CredentialByVct(queries[n].vct, held), claims |-> queries[n].claims]]
  /\ UNCHANGED <<qr, rpConf, request, response, rpAnswered>>

(* 07: the response *)

\* Each presentation is signed with the key of its credential, for the nonce
\* and the client id of the request object; a claim that the credential does
\* not have is left out.
PrepareRemotePresentations ==
  /\ rpStep = "prepare"
  /\ rpStep' = "send"
  /\ presented' = [n \in DOMAIN presented |->
       [presented[n] EXCEPT !.claims = @ \cap presented[n].credential.claims]]
  /\ UNCHANGED <<qr, rpConf, request, response, rpFailure, rpAnswered>>

\* In 1.3.3 the keys of the configuration, or without one those of the
\* request object.
ResponseKeys == IF rpConf # NoConf THEN rpConf.keys ELSE request.metadata
EncryptionKeys == {k \in ResponseKeys : k.use = "enc"}

\* The error without a key for the response; the caller passes the
\* configuration that it got.
KeyError ==
  IF qr.version = "1.0.0" THEN Failure("NoSuitableKeysFoundInEntityConfiguration")
  ELSE IF ResponseKeys = {} THEN Failure("IoWalletError")
  ELSE MapSdkAuthorizationResponseError(Failure("SdkCreateAuthorizationResponseError"))

\* A lost answer is an error of the SDK in 1.3.3, one of the network in 1.0.0.
ResponseError(answer) ==
  IF qr.version = "1.0.0"
  THEN IF answer = LostAnswer THEN Failure("TypeError")
       ELSE HandleAuthorizationResponseErrorV1_0(
              HasStatusOrThrow("200", "UnexpectedStatusCodeError", answer))
  ELSE MapSdkAuthorizationResponseError(
         IF answer = LostAnswer THEN Failure("SdkFetchAuthorizationResponseError")
         ELSE HasStatusOrThrow("200", "SdkUnexpectedStatusCode", answer))

\* Posted to the response_uri of the request object.
SendAuthorizationResponse(answer) ==
  /\ rpStep = "send"
  /\ IF EncryptionKeys = {}
     THEN CallEnds(KeyError, "sent") /\ UNCHANGED <<response, rpAnswered>>
     ELSE /\ CallEnds(ResponseError(answer), "sent")
          /\ response' = [kind |-> "response", uri |-> request.uri, state |-> request.state,
                          key |-> CHOOSE k \in EncryptionKeys : TRUE]
          /\ rpAnswered' = answer.status
  /\ UNCHANGED <<qr, rpConf, request, presented>>

RefusalError(answer) ==
  IF answer = LostAnswer THEN Failure("TypeError")
  ELSE HasStatusOrThrow("200", "RelyingPartyResponseError", answer)

\* A refusal is posted in clear, and may follow the verification or, for a
\* query that cannot be satisfied, its evaluation.
SendAuthorizationErrorResponse(answer) ==
  /\ \/ rpStep = "evaluate"
     \/ rpStep = "failed" /\ rpFailure.class = "CredentialsNotFoundError"
  /\ CallEnds(RefusalError(answer), "refused")
  /\ response' = [kind |-> "refusal", uri |-> request.uri, state |-> request.state]
  /\ rpAnswered' = answer.status
  /\ UNCHANGED <<qr, rpConf, request, presented>>

RelyingPartyNext ==
  \/ \E version \in PartyVersions, client \in Parties, requestUri \in BOOLEAN,
        prefix \in {"openid_federation", "x509_hash", "other"}, state \in {"none", "s1"} :
       /\ version = "1.0.0" => prefix = "openid_federation"
       /\ StartFlowFromQR(version, client, prefix, state, requestUri)
  \/ \E subject \in Parties, owner \in Parties, uses \in {{"sig"}, {"sig", "enc"}} :
       EvaluateRelyingPartyTrust(subject, {k \in KeysOf[owner] : k.use \in uses})
  \/ \E answer \in PartyAnswers, object \in RequestObjects : GetRequestObject(answer, object)
  \/ \E answer \in PostAnswers :
       SendAuthorizationResponse(answer) \/ SendAuthorizationErrorResponse(answer)
  \/ \E x5c \in {"none", "root", "other"} : VerifyAuthRequestCertificateChain(x5c, "root")
  \/ VerifyRequestObject
  \/ \E held \in HeldCredentials, queries \in AskedCredentials : EvaluateDcqlQuery(held, queries)
  \/ PrepareRemotePresentations
-----------------------------------------------------------------------------
(* Properties *)

\* A response goes to the response_uri of the request object, with its state,
\* encrypted for a key of the configuration in use or, without one, of the
\* request object; in 1.0.0 that object is signed by a key of the configuration
\* and repeats the state of the QR code.  Configuration and request object
\* name the client of the QR code when its prefix is openid_federation, as it
\* always is in 1.0.0; with x509_hash the client signed the request object.
\* Other prefixes are tied to nothing, and in 1.3.3 no state is compared; whose
\* keys a configuration has is for its trust chain to tell, not for these calls.
ResponseToClient ==
  response.kind = "response" =>
    /\ response.uri = request.uri /\ response.state = request.state
    /\ response.key.use = "enc"
    /\ response.key \in IF rpConf = NoConf THEN request.metadata ELSE rpConf.keys
    /\ qr.version = "1.0.0" =>
         /\ qr.prefix = "openid_federation"
         /\ request.signer \in rpConf.keys /\ request.iss = qr.client
         /\ qr.state \in {"none", request.state}
    /\ qr.prefix = "openid_federation" =>
         rpConf # NoConf /\ rpConf.subject = qr.client /\ request.client = qr.client
    /\ qr.prefix = "x509_hash" => request.signer.party = qr.client

\* An answer of the relying party that is an error is reported as one of the
\* relying party, with its status; a lost one, of a response in 1.3.3, as one
\* too, with a status that nobody answered (400), and of anything else as an
\* error of the network.  A response that is refused, and nothing else, is an
\* invalid response: a lost answer, after which the response may have been
\* accepted, is never taken for a refusal.
RejectionClassified ==
  rpAnswered \notin {"none", "200"} /\ rpStep = "failed" =>
    /\ IF rpAnswered = "lost"
       THEN rpFailure.class = IF qr.version # "1.0.0" /\ response.kind = "response"
                              THEN "RelyingPartyResponseError" ELSE "TypeError"
       ELSE /\ IsErrorOf("RelyingPartyResponseError", "none", rpFailure)
            /\ rpFailure.status = rpAnswered
    /\ rpFailure.code = "InvalidAuthorizationResponse"
         <=> response.kind = "response" /\ rpAnswered \in {"400", "403"}
=============================================================================
