-------------------------- MODULE LibraryTypeProofs --------------------------
(***************************************************************************)
(* The types of the machines of the library.  What is not obvious of them  *)
(* is the errors: through whatever handlers an error passed, in whatever   *)
(* version, its class is one that the callers of its machine foresee, and  *)
(* its code one of that class.                                             *)
(***************************************************************************)
EXTENDS LibraryProofs

(***************************************************************************)
(* The errors: what each builder and handler makes of an error.            *)
(***************************************************************************)

ErrorStatuses ==
  Statuses \cup PartyStatuses \cup {"none", "200", "201", "400", "403", "404", "409", "500"}
ErrorReasons ==
  {"none", "unspecified", "message", "valid", "malformed", "problem", "invalidResponse"}

LEMMA StatusErrorOK ==
  ASSUME NEW class, NEW code \in CodesOf(class), NEW status \in ErrorStatuses,
         NEW reason \in ErrorReasons
  PROVE  /\ ErrorOK(StatusError(class, code, status, reason))
         /\ StatusError(class, code, status, reason).class = class
<1> DEFINE error == StatusError(class, code, status, reason)
<1>1. /\ error.class = class /\ error.code = code
      /\ error.status = status /\ error.reason = reason
  BY DEF StatusError
<1> HIDE DEF error
<1>2. error = StatusError(error.class, error.code, error.status, error.reason)
  BY <1>1 DEF error
<1> QED BY <1>1, <1>2 DEF ErrorOK, error, ErrorStatuses, ErrorReasons

\* An error that is of no party has its class for a code.
LEMMA FailureOK ==
  /\ ErrorOK(NoError) /\ NoError.class = "none"
  /\ \A class : class \notin PartyErrors =>
       ErrorOK(Failure(class)) /\ Failure(class).class = class /\ Failure(class).status = "none"
<1>1. "none" \in CodesOf("none") /\ "none" \in ErrorStatuses
      /\ "none" \in ErrorReasons /\ "unspecified" \in ErrorReasons
  BY DEF CodesOf, ErrorStatuses, ErrorReasons
<1>2. ErrorOK(NoError) /\ NoError.class = "none"
  BY <1>1, StatusErrorOK, Zenon DEF NoError
<1>3. ASSUME NEW class, class \notin PartyErrors
      PROVE  ErrorOK(Failure(class)) /\ Failure(class).class = class
  <2>1. class \in CodesOf(class)
    BY <1>3 DEF CodesOf, PartyErrors
  <2> QED BY <1>1, <2>1, StatusErrorOK, Zenon DEF Failure
<1>4. \A class : Failure(class).status = "none"
  BY DEF Failure, StatusError
<1> QED BY <1>2, <1>3, <1>4

LEMMA UnexpectedStatusOK ==
  ASSUME NEW class \in DOMAIN DefaultCode, NEW answer,
         answer.status \in ErrorStatuses, answer.body \in ErrorReasons
  PROVE  /\ ErrorOK(UnexpectedStatus(class, answer))
         /\ UnexpectedStatus(class, answer).class = class
<1>1. class \in {"IssuerResponseError", "WalletProviderResponseError",
                 "RelyingPartyResponseError", "UnexpectedStatusCodeError",
                 "SdkUnexpectedStatusCode"}
  BY DEF DefaultCode
<1>2. DefaultCode[class] =
        IF class = "IssuerResponseError" THEN "IssuerGenericError"
        ELSE IF class = "WalletProviderResponseError" THEN "WalletProviderGenericError"
        ELSE IF class = "RelyingPartyResponseError" THEN "RelyingPartyGenericError"
        ELSE "UnexpectedStatusCode"
  BY <1>1 DEF DefaultCode
<1>3. DefaultCode[class] \in CodesOf(class)
  BY <1>1, <1>2 DEF CodesOf, IssuerResponseErrorCodes, WalletProviderResponseErrorCodes,
                    RelyingPartyResponseErrorCodes
<1> QED BY <1>3, StatusErrorOK, Zenon DEF UnexpectedStatus

\* What a status becomes: no error, or one of the class that was asked for.
LEMMA HasStatusOrThrowOK ==
  ASSUME NEW expected, NEW class \in DOMAIN DefaultCode, NEW answer,
         answer.status \in ErrorStatuses, answer.body \in ErrorReasons
  PROVE  /\ ErrorOK(HasStatusOrThrow(expected, class, answer))
         /\ HasStatusOrThrow(expected, class, answer).class \in {class, "none"}
BY UnexpectedStatusOK, FailureOK DEF HasStatusOrThrow

\* A builder whose cases are codes of its class.
LEMMA BuildFromOK ==
  ASSUME NEW class, NEW cases, NEW error, ErrorOK(error),
         \A s \in DOMAIN cases : cases[s] \in CodesOf(class)
  PROVE  /\ ErrorOK(BuildFrom(class, cases, error))
         /\ BuildFrom(class, cases, error).class \in {class, error.class}
         /\ "*" \in DOMAIN cases => BuildFrom(class, cases, error).class = class
<1> DEFINE exact == {s \in DOMAIN cases : s = error.status}
           match == IF exact # {} THEN exact ELSE DOMAIN cases \cap {"*"}
           chosen == CHOOSE s \in match : TRUE
           built == StatusError(class, cases[chosen], error.status, error.reason)
<1>1. BuildFrom(class, cases, error) = IF match = {} THEN error ELSE built
  BY DEF BuildFrom
<1>2. match # {} => chosen \in DOMAIN cases
  OBVIOUS
<1>3. "*" \in DOMAIN cases => match # {}
  OBVIOUS
<1>4. match # {} => ErrorOK(built) /\ built.class = class
  <2> HIDE DEF match, chosen
  <2>1. error.status \in ErrorStatuses /\ error.reason \in ErrorReasons
    BY DEF ErrorOK, ErrorStatuses, ErrorReasons
  <2>2. match # {} => cases[chosen] \in CodesOf(class)
    BY <1>2
  <2> QED BY <2>1, <2>2, StatusErrorOK, Zenon
<1> HIDE DEF match, built
<1> QED BY <1>1, <1>3, <1>4

\* The errors that a handler catches are of its class afterwards, when one of
\* its cases is the fallback; the others are what they were.
LEMMA HandledOK ==
  ASSUME NEW source, NEW class, NEW cases, NEW error, ErrorOK(error),
         "*" \in DOMAIN cases, \A s \in DOMAIN cases : cases[s] \in CodesOf(class)
  PROVE  /\ ErrorOK(Handled(source, class, cases, error))
         /\ Handled(source, class, cases, error).class =
              IF InstanceOf(error, source) THEN class ELSE error.class
BY BuildFromOK DEF Handled

\* The handlers of the issuance and of the wallet provider.
LEMMA HandlersOK ==
  ASSUME NEW error, ErrorOK(error)
  PROVE  /\ ErrorOK(HandleObtainCredentialErrorV1_0(error))
         /\ HandleObtainCredentialErrorV1_0(error).class \in {"IssuerResponseError", error.class}
         /\ ErrorOK(HandleObtainCredentialErrorV1_3(error))
         /\ HandleObtainCredentialErrorV1_3(error).class \in {"IssuerResponseError", error.class}
         /\ ErrorOK(HandleCreateWalletInstanceError(error))
         /\ HandleCreateWalletInstanceError(error).class
              \in {"WalletProviderResponseError", error.class}
         /\ ErrorOK(HandleAttestationCreationError(error))
         /\ HandleAttestationCreationError(error).class
              \in {"WalletProviderResponseError", error.class}
<1>1. /\ ErrorOK(HandleObtainCredentialErrorV1_0(error))
      /\ HandleObtainCredentialErrorV1_0(error).class \in {"IssuerResponseError", error.class}
  <2> DEFINE cases == [s \in {"201", "403", "404", "*"} |->
                         CASE s = "201" -> "CredentialIssuingNotSynchronous"
                           [] s = "*"   -> "CredentialRequestFailed"
                           [] OTHER     -> InvalidStatusCases[s]]
  <2>1. \A s \in DOMAIN cases : cases[s] \in CodesOf("IssuerResponseError")
    BY DEF CodesOf, IssuerResponseErrorCodes, InvalidStatusCases
  <2>2. "*" \in DOMAIN cases
    OBVIOUS
  <2> HIDE DEF cases
  <2> DEFINE handled == Handled("UnexpectedStatusCodeError", "IssuerResponseError", cases, error)
  <2>3. ErrorOK(handled) /\ handled.class \in {"IssuerResponseError", error.class}
    BY <2>1, <2>2, HandledOK
  <2> QED BY <2>3 DEF HandleObtainCredentialErrorV1_0, cases
<1>2. /\ ErrorOK(HandleObtainCredentialErrorV1_3(error))
      /\ HandleObtainCredentialErrorV1_3(error).class \in {"IssuerResponseError", error.class}
  <2> DEFINE cases == [s \in {"403", "404", "*"} |->
                         IF s = "*" THEN "CredentialRequestFailed" ELSE InvalidStatusCases[s]]
  <2>1. \A s \in DOMAIN cases : cases[s] \in CodesOf("IssuerResponseError")
    BY DEF CodesOf, IssuerResponseErrorCodes, InvalidStatusCases
  <2>2. "*" \in DOMAIN cases
    OBVIOUS
  <2> HIDE DEF cases
  <2> DEFINE handled == Handled("SdkUnexpectedStatusCode", "IssuerResponseError", cases, error)
  <2>3. ErrorOK(handled) /\ handled.class \in {"IssuerResponseError", error.class}
    BY <2>1, <2>2, HandledOK
  <2> QED BY <2>3 DEF HandleObtainCredentialErrorV1_3, cases
<1>3. /\ ErrorOK(HandleCreateWalletInstanceError(error))
      /\ HandleCreateWalletInstanceError(error).class \in {"WalletProviderResponseError", error.class}
  <2> DEFINE cases == [s \in {"409", "*"} |->
                         IF s = "*" THEN "WalletInstanceCreationFailed"
                                    ELSE "WalletInstanceIntegrityFailed"]
  <2>1. \A s \in DOMAIN cases : cases[s] \in CodesOf("WalletProviderResponseError")
    BY DEF CodesOf, WalletProviderResponseErrorCodes
  <2>2. "*" \in DOMAIN cases
    OBVIOUS
  <2> HIDE DEF cases
  <2> DEFINE handled == Handled("WalletProviderResponseError", "WalletProviderResponseError", cases, error)
  <2>3. ErrorOK(handled) /\ handled.class \in {"WalletProviderResponseError", error.class}
    BY <2>1, <2>2, HandledOK
  <2> QED BY <2>3 DEF HandleCreateWalletInstanceError, cases
<1>4. /\ ErrorOK(HandleAttestationCreationError(error))
      /\ HandleAttestationCreationError(error).class \in {"WalletProviderResponseError", error.class}
  <2> DEFINE cases == [s \in {"403", "404", "409", "*"} |->
                         CASE s = "403" -> "WalletInstanceRevoked"
                           [] s = "404" -> "WalletInstanceNotFound"
                           [] s = "409" -> "WalletInstanceIntegrityFailed"
                           [] OTHER     -> "WalletInstanceAttestationIssuingFailed"]
  <2>1. \A s \in DOMAIN cases : cases[s] \in CodesOf("WalletProviderResponseError")
    BY DEF CodesOf, WalletProviderResponseErrorCodes
  <2>2. "*" \in DOMAIN cases
    OBVIOUS
  <2> HIDE DEF cases
  <2> DEFINE handled == Handled("WalletProviderResponseError", "WalletProviderResponseError", cases, error)
  <2>3. ErrorOK(handled) /\ handled.class \in {"WalletProviderResponseError", error.class}
    BY <2>1, <2>2, HandledOK
  <2> QED BY <2>3 DEF HandleAttestationCreationError, cases
<1> QED BY <1>1, <1>2, <1>3, <1>4

\* The handlers and mappings of a presentation: no error that they are for goes
\* on under the name that it had.
LEMMA PresentationHandlersOK ==
  ASSUME NEW error, ErrorOK(error)
  PROVE  /\ ErrorOK(HandleAuthorizationResponseErrorV1_0(error))
         /\ error.class \in {"UnexpectedStatusCodeError", "none"} =>
              HandleAuthorizationResponseErrorV1_0(error).class
                \in {"RelyingPartyResponseError", "none"}
         /\ ErrorOK(MapSdkFetchAuthRequestError(error))
         /\ error.class \in {"SdkUnexpectedStatusCode", "none"} =>
              MapSdkFetchAuthRequestError(error).class \in {"RelyingPartyResponseError", "none"}
         /\ ErrorOK(MapSdkRequestObjectError(error))
         /\ MapSdkRequestObjectError(error).class = "InvalidRequestObjectError"
         /\ ErrorOK(MapSdkAuthorizationResponseError(error))
         /\ error.class \in {"SdkUnexpectedStatusCode", "SdkCreateAuthorizationResponseError",
                             "SdkFetchAuthorizationResponseError", "none"} =>
              MapSdkAuthorizationResponseError(error).class
                \in {"RelyingPartyResponseError", "none"}
<1>1. error.status \in ErrorStatuses /\ "400" \in ErrorStatuses
  BY DEF ErrorOK, ErrorStatuses
<1>2. \A status \in ErrorStatuses :
        /\ ErrorOK(ToRelyingPartyResponseError(status))
        /\ ToRelyingPartyResponseError(status).class = "RelyingPartyResponseError"
  <2>1. /\ "RelyingPartyGenericError" \in CodesOf("RelyingPartyResponseError")
        /\ "message" \in ErrorReasons
    BY DEF CodesOf, RelyingPartyResponseErrorCodes, ErrorReasons
  <2> QED BY <2>1, StatusErrorOK, Zenon DEF ToRelyingPartyResponseError
<1>3. /\ \A s \in DOMAIN AuthorizationResponseCases :
           AuthorizationResponseCases[s] \in CodesOf("RelyingPartyResponseError")
      /\ "*" \in DOMAIN AuthorizationResponseCases
  BY DEF CodesOf, RelyingPartyResponseErrorCodes, AuthorizationResponseCases
<1>4. /\ ErrorOK(HandleAuthorizationResponseErrorV1_0(error))
      /\ error.class \in {"UnexpectedStatusCodeError", "none"} =>
           HandleAuthorizationResponseErrorV1_0(error).class
             \in {"RelyingPartyResponseError", "none"}
  BY <1>3, HandledOK DEF HandleAuthorizationResponseErrorV1_0, InstanceOf
<1>5. /\ ErrorOK(MapSdkFetchAuthRequestError(error))
      /\ error.class \in {"SdkUnexpectedStatusCode", "none"} =>
           MapSdkFetchAuthRequestError(error).class \in {"RelyingPartyResponseError", "none"}
  BY <1>1, <1>2 DEF MapSdkFetchAuthRequestError
<1>6. /\ ErrorOK(MapSdkRequestObjectError(error))
      /\ MapSdkRequestObjectError(error).class = "InvalidRequestObjectError"
  <2>1. PICK r \in {"message", "unspecified"} :
          MapSdkRequestObjectError(error)
            = StatusError("InvalidRequestObjectError", "InvalidRequestObjectError", "none", r)
    BY DEF MapSdkRequestObjectError, Failure, StatusError
  <2>2. /\ "InvalidRequestObjectError" \in CodesOf("InvalidRequestObjectError")
        /\ "none" \in ErrorStatuses /\ r \in ErrorReasons
    BY DEF CodesOf, ErrorStatuses, ErrorReasons
  <2> DEFINE mapped == StatusError("InvalidRequestObjectError", "InvalidRequestObjectError",
                                   "none", r)
  <2>3. ErrorOK(mapped) /\ mapped.class = "InvalidRequestObjectError"
    BY <2>2, StatusErrorOK, Zenon
  <2> HIDE DEF mapped
  <2> QED BY <2>1, <2>3 DEF mapped
<1>7. /\ ErrorOK(MapSdkAuthorizationResponseError(error))
      /\ error.class \in {"SdkUnexpectedStatusCode", "SdkCreateAuthorizationResponseError",
                          "SdkFetchAuthorizationResponseError", "none"} =>
           MapSdkAuthorizationResponseError(error).class \in {"RelyingPartyResponseError", "none"}
  <2> DEFINE built == BuildFrom("RelyingPartyResponseError", AuthorizationResponseCases, error)
  <2>1. ErrorOK(built) /\ built.class = "RelyingPartyResponseError"
    BY <1>3, BuildFromOK
  <2> HIDE DEF built
  <2>2. \/ MapSdkAuthorizationResponseError(error) \in
             {built, ToRelyingPartyResponseError("400"), ToRelyingPartyResponseError(error.status)}
        \/ /\ MapSdkAuthorizationResponseError(error) = error
           /\ error.class \notin {"SdkUnexpectedStatusCode", "SdkCreateAuthorizationResponseError",
                                   "SdkFetchAuthorizationResponseError"}
    BY DEF MapSdkAuthorizationResponseError, built
  <2> DEFINE mapped == MapSdkAuthorizationResponseError(error)
  <2> HIDE DEF mapped
  <2>3. \/ ErrorOK(mapped) /\ mapped.class = "RelyingPartyResponseError"
        \/ /\ mapped = error
           /\ error.class \notin {"SdkUnexpectedStatusCode", "SdkCreateAuthorizationResponseError",
                                   "SdkFetchAuthorizationResponseError"}
    BY <1>1, <1>2, <2>1, <2>2 DEF mapped
  <2> QED BY <2>3 DEF mapped
<1> QED BY <1>4, <1>5, <1>6, <1>7

(***************************************************************************)
(* Issuance.                                                               *)
(***************************************************************************)

FlowSteps ==
  {"idle", "par", "authorize", "redirect", "present", "form", "token", "obtain", "credential",
   "verify", "done", "failed"}

RequestTyped(r) ==
  /\ r = [id |-> r.id, identifier |-> r.identifier, batch |-> r.batch, claims |-> r.claims]
  /\ r.id \in (UNION Requests) \cup {"none"}
  /\ r.identifier \in Identifiers \cup {"none"}

FlowTyped ==
  /\ step \in FlowSteps
  /\ token \in Grants \cup {{}}
  /\ RequestTyped(issued)
  /\ answered.status \in Statuses \cup {"none"}
  /\ Foreseen(IssuanceErrors, failure)

\* The errors that a call of an issuance throws itself.
LEMMA IssuanceFailures ==
  /\ Foreseen(IssuanceErrors, NoError)
  /\ \A class \in IssuanceErrors \ PartyErrors : Foreseen(IssuanceErrors, Failure(class))
BY FailureOK DEF Foreseen

LEMMA OwnIssuanceErrors ==
  {"SdkValidationError", "ValidationFailed", "ZodError", "IoWalletError", "TypeError", "Error",
   "AuthorizationError", "AuthorizationIdpError", "Oauth2JwtVerifyError",
   "UnimplementedFeatureError",
   "MissingX509CertsError", "X509ValidationError"} \subseteq IssuanceErrors \ PartyErrors
BY DEF IssuanceErrors, PartyErrors

LEMMA AnswersTyped ==
  ASSUME NEW a \in Answers
  PROVE  a.status \in Statuses /\ a.status \in ErrorStatuses /\ a.body \in ErrorReasons
BY DEF Answers, ErrorStatuses, ErrorReasons

LEMMA AnswerForeseen ==
  ASSUME NEW expected, NEW a \in Answers,
         NEW class \in {"IssuerResponseError", "SdkUnexpectedStatusCode",
                        "UnexpectedStatusCodeError"},
         NEW invalid \in {"SdkValidationError", "ValidationFailed", "ZodError"}
  PROVE  Foreseen(IssuanceErrors, AnswerError(expected, class, invalid, a))
<1> DEFINE error == HasStatusOrThrow(expected, class, a)
<1>1. class \in DOMAIN DefaultCode /\ class \in IssuanceErrors
  BY DEF DefaultCode, IssuanceErrors
<1>2. Foreseen(IssuanceErrors, error)
  BY <1>1, AnswersTyped, HasStatusOrThrowOK DEF Foreseen
<1>3. Foreseen(IssuanceErrors, Failure(invalid))
  BY IssuanceFailures, OwnIssuanceErrors
<1> HIDE DEF error
<1> QED BY <1>2, <1>3 DEF AnswerError, error

LEMMA CredentialForeseen ==
  ASSUME NEW a \in Answers
  PROVE  Foreseen(IssuanceErrors, CredentialError(a))
<1> DEFINE e1 == HasStatusOrThrow("200", "UnexpectedStatusCodeError", a)
           e2 == HasStatusOrThrow("200", "SdkUnexpectedStatusCode", a)
<1>1. "UnexpectedStatusCodeError" \in DOMAIN DefaultCode /\ "SdkUnexpectedStatusCode" \in DOMAIN DefaultCode
  BY DEF DefaultCode
<1>2. /\ ErrorOK(e1) /\ e1.class \in {"UnexpectedStatusCodeError", "none"}
      /\ ErrorOK(e2) /\ e2.class \in {"SdkUnexpectedStatusCode", "none"}
  BY <1>1, AnswersTyped, HasStatusOrThrowOK
<1> HIDE DEF e1, e2
<1>3. Foreseen(IssuanceErrors, HandleObtainCredentialErrorV1_0(e1))
  BY <1>2, HandlersOK DEF Foreseen, IssuanceErrors
<1>4. Foreseen(IssuanceErrors, HandleObtainCredentialErrorV1_3(e2))
  BY <1>2, HandlersOK DEF Foreseen, IssuanceErrors
<1>5. Foreseen(IssuanceErrors, Failure("IoWalletError"))
  BY IssuanceFailures, OwnIssuanceErrors
<1>6. /\ Foreseen(IssuanceErrors, Failure("ValidationFailed"))
      /\ Foreseen(IssuanceErrors, Failure("SdkValidationError"))
      /\ Foreseen(IssuanceErrors, NoError)
  BY IssuanceFailures, OwnIssuanceErrors
<1>7. Foreseen(IssuanceErrors, CredentialErrorV1_0(a))
  BY <1>3, <1>6 DEF CredentialErrorV1_0, e1
<1>8. Foreseen(IssuanceErrors, CredentialErrorV1_3(a))
  BY <1>4, <1>5, <1>6 DEF CredentialErrorV1_3, e2
<1> QED BY <1>7, <1>8 DEF CredentialError

\* The verification throws errors of its own alone.
VerificationErrors ==
  {Failure(c) : c \in {"IoWalletError", "MissingX509CertsError", "X509ValidationError", "Error"}}
    \cup {NoError}

LEMMA VerificationThrows ==
  ASSUME NEW config, NEW doc, NEW context \in Contexts, NEW root
  PROVE  /\ VerifyAndParseCredentialV1_0(config, IssuerKeys, doc, context, root).error
              \in VerificationErrors
         /\ VerifyAndParseCredentialV1_3(config, IssuerKeys, doc, context, root).error
              \in VerificationErrors
<1>1. \A error : Rejected(error).error = error
  BY DEF Rejected
<1>2. \A c, r : VerifyAndParseCredentialSdJwt(config, IssuerKeys, doc, c, r).error
                  \in VerificationErrors
  <2> SUFFICES ASSUME NEW c, NEW r
               PROVE  VerifyAndParseCredentialSdJwt(config, IssuerKeys, doc, c, r).error
                        \in VerificationErrors
    OBVIOUS
  <2> DEFINE verified == VerifyCredentialSdJwt(doc, IssuerKeys, c.holderKey)
             claims   == ParseCredentialSdJwt(config, doc.nodes, c)
             chained  == VerifyX509Chain(doc, r)
  <2>1. verified \in VerificationErrors /\ chained \in VerificationErrors
    BY DEF VerifyCredentialSdJwt, VerifyX509Chain, VerificationErrors
  <2>2. claims.error \in VerificationErrors
    <3>1. claims.error \in {Failure("IoWalletError"), NoError}
      BY DEF ParseCredentialSdJwt
    <3> QED BY <3>1 DEF VerificationErrors
  <2>3. VerifyAndParseCredentialSdJwt(config, IssuerKeys, doc, c, r) \in
          {Rejected(verified), Rejected(chained), claims, Rejected(Failure("IoWalletError")),
           Rejected(Failure("MissingX509CertsError"))}
    <3> HIDE DEF verified, claims, chained
    <3> QED BY DEF VerifyAndParseCredentialSdJwt, verified, claims, chained
  <2> HIDE DEF verified, claims, chained
  <2>4. Failure("IoWalletError") \in VerificationErrors
        /\ Failure("MissingX509CertsError") \in VerificationErrors
    BY DEF VerificationErrors
  <2> QED BY <1>1, <2>1, <2>2, <2>3, <2>4
<1>3. VerifyAndParseCredentialMDoc(config, doc, context, root).error \in VerificationErrors
  <2> DEFINE verified == VerifyCredentialMDoc(doc, root, context.holderKey)
             claims   == ParseCredentialMDoc(config, doc.nodes, context)
  <2>1. verified \in VerificationErrors
    BY DEF VerifyCredentialMDoc, VerifyMdoc, VerifyX509Chain, VerificationErrors
  <2>2. claims.error \in VerificationErrors
    <3>1. claims.error \in {Failure("IoWalletError"), NoError}
      BY DEF ParseCredentialMDoc
    <3> QED BY <3>1 DEF VerificationErrors
  <2>3. VerifyAndParseCredentialMDoc(config, doc, context, root) \in
          {Rejected(verified), claims, Rejected(Failure("IoWalletError"))}
    <3> HIDE DEF verified, claims
    <3> QED BY DEF VerifyAndParseCredentialMDoc, verified, claims
  <2> HIDE DEF verified, claims
  <2>4. Failure("IoWalletError") \in VerificationErrors
    BY DEF VerificationErrors
  <2> QED BY <1>1, <2>1, <2>2, <2>3, <2>4
<1>4. Rejected(Failure("IoWalletError")).error \in VerificationErrors
  BY <1>1 DEF VerificationErrors
<1> QED BY <1>2, <1>3, <1>4 DEF VerifyAndParseCredentialV1_0, VerifyAndParseCredentialV1_3

\* A call that ends with an error that is foreseen, or goes on.
LEMMA TypedCall ==
  ASSUME FlowTyped, NEW error, NEW next \in FlowSteps, EndsWith(error, next),
         Foreseen(IssuanceErrors, error),
         answered' = answered \/ \E a \in Answers : \E e : Received(e, a) /\ a.status \in Statuses,
         token' \in Grants \cup {{}}, RequestTyped(issued')
  PROVE  FlowTyped'
<1>1. answered'.status \in Statuses \cup {"none"}
  BY DEF FlowTyped, Received
<1>2. failure' = error /\ step' \in FlowSteps
  BY DEF EndsWith, FlowSteps
<1>3. Foreseen(IssuanceErrors, failure')
  BY <1>2
<1> QED BY <1>1, <1>2, <1>3 DEF FlowTyped, RequestTyped, Foreseen, ErrorOK, CodesOf

LEMMA RedirectForeseen ==
  ASSUME NEW q
  PROVE  /\ Foreseen(IssuanceErrors, ParseAuthorizationResponse(q))
         /\ Foreseen(IssuanceErrors, ChallengeV1_0(q))
         /\ Foreseen(IssuanceErrors, ChallengeV1_3(q))
BY IssuanceFailures, OwnIssuanceErrors
DEF ParseAuthorizationResponse, ChallengeV1_0, ChallengeV1_3

LEMMA FlowTypedStep ==
  ASSUME FlowTyped, FlowNext
  PROVE  FlowTyped'
<1>0. token \in Grants \cup {{}} /\ RequestTyped(issued)
  BY DEF FlowTyped
<1>own. /\ Foreseen(IssuanceErrors, NoError)
        /\ \A c \in {"ValidationFailed", "IoWalletError", "TypeError", "AuthorizationError",
                     "Oauth2JwtVerifyError", "UnimplementedFeatureError"} : Foreseen(IssuanceErrors, Failure(c))
  BY IssuanceFailures, OwnIssuanceErrors
<1>answer. \A a \in Answers : \A e : Received(e, a) =>
             \E b \in Answers : \E n : Received(n, b) /\ b.status \in Statuses
  BY AnswersTyped
<1>1. ASSUME NEW v \in Versions, NEW ids \in Requests, NEW p \in {"none", "mrtd-pop"},
             NEW s \in SUBSET {"query", "form_post.jwt"}, StartUserAuthorization(v, ids, p, s)
      PROVE  FlowTyped'
  <2>1. Foreseen(IssuanceErrors, RequestError(v, ids, s))
    BY <1>own DEF RequestError
  <2>2. EndsWith(RequestError(v, ids, s), "par") /\ UNCHANGED <<answered, token, issued>>
    BY <1>1 DEF StartUserAuthorization
  <2> QED BY <1>0, <2>1, <2>2, TypedCall DEF FlowSteps
<1>2. CASE BuildAuthorizationUrl
  BY <1>2 DEF BuildAuthorizationUrl, FlowTyped, RequestTyped, FlowSteps, Foreseen, ErrorOK,
              CodesOf
<1>3. ASSUME NEW q \in Queries, CompletePidUserAuthorizationWithQueryMode(q)
      PROVE  FlowTyped'
  <2>1. /\ EndsWith(ParseAuthorizationResponse(q), "token")
        /\ UNCHANGED <<answered, token, issued>>
    BY <1>3 DEF CompletePidUserAuthorizationWithQueryMode
  <2> QED BY <1>0, <2>1, RedirectForeseen, TypedCall DEF FlowSteps
<1>4. ASSUME NEW q \in Queries, ContinueWithMRTDPoPChallenge(q)
      PROVE  FlowTyped'
  <2>1. PICK error \in {ChallengeV1_0(q), ChallengeV1_3(q)} : EndsWith(error, "redirect")
    BY <1>4 DEF ContinueWithMRTDPoPChallenge
  <2>2. UNCHANGED <<answered, token, issued>>
    BY <1>4 DEF ContinueWithMRTDPoPChallenge
  <2> QED BY <1>0, <2>1, <2>2, RedirectForeseen, TypedCall DEF FlowSteps
<1>5. ASSUME NEW a \in Answers, MakeParRequest(a)
      PROVE  FlowTyped'
  <2>1. Foreseen(IssuanceErrors, ParErrorV1_0(a)) /\ Foreseen(IssuanceErrors, ParErrorV1_3(a))
    BY AnswerForeseen DEF ParErrorV1_0, ParErrorV1_3, SdkError
  <2>2. PICK error \in {ParErrorV1_0(a), ParErrorV1_3(a)} : EndsWith(error, "authorize")
    BY <1>5 DEF MakeParRequest
  <2>3. Received("par", a) /\ UNCHANGED <<token, issued>>
    BY <1>5 DEF MakeParRequest
  <2> QED BY <1>0, <1>answer, <2>1, <2>2, <2>3, TypedCall DEF FlowSteps
<1>6. ASSUME NEW a \in Answers, PostResponseV1_0(a)
      PROVE  FlowTyped'
  <2>1. /\ EndsWith(IssuerError("200", a), "form") /\ Received("response", a)
        /\ UNCHANGED <<token, issued>>
    BY <1>6 DEF PostResponseV1_0
  <2>2. Foreseen(IssuanceErrors, IssuerError("200", a))
    BY AnswerForeseen DEF IssuerError
  <2> QED BY <1>0, <1>answer, <2>1, <2>2, TypedCall DEF FlowSteps
<1>7. ASSUME NEW a \in Answers, NEW n \in BOOLEAN, ObtainCredential(a, n)
      PROVE  FlowTyped'
  <2> DEFINE error == IF CredentialError(a) = NoError THEN CredentialMissing(n)
                      ELSE CredentialError(a)
  <2>1. EndsWith(error, "verify") /\ Received("credential", a) /\ UNCHANGED <<token, issued>>
    BY <1>7 DEF ObtainCredential
  <2>2. Foreseen(IssuanceErrors, CredentialMissing(n))
    BY <1>own DEF CredentialMissing
  <2>3. Foreseen(IssuanceErrors, error)
    BY <2>2, CredentialForeseen
  <2> HIDE DEF error
  <2> QED BY <1>0, <1>answer, <2>1, <2>3, TypedCall DEF FlowSteps
<1>8. ASSUME NEW a \in Answers, NEW id \in UNION Requests, NEW u \in Identifiers \cup {"none"},
             NEW b \in BOOLEAN, NEW w \in BOOLEAN, CreateNonceProof(id, u, b, w, a)
      PROVE  FlowTyped'
  <2> DEFINE error     == AnswerError("200", "UnexpectedStatusCodeError", "ZodError", a)
             forbidden == RequestForbidden(id, u, b, w)
  <2>1. Foreseen(IssuanceErrors, error)
    BY AnswerForeseen
  <2>2. Foreseen(IssuanceErrors, forbidden)
    BY <1>own DEF RequestForbidden
  <2>3. PICK thrown \in {error, forbidden} : EndsWith(thrown, "credential")
    <3> HIDE DEF error, forbidden
    <3> QED BY <1>8 DEF CreateNonceProof, error, forbidden
  <2>4. Received("nonce", a) \/ UNCHANGED answered
    <3> HIDE DEF error, forbidden
    <3> QED BY <1>8 DEF CreateNonceProof, error, forbidden
  <2>5. token' = token /\ issued' = [id |-> id, identifier |-> u, batch |-> b,
                                    claims |-> issued.claims]
    <3>1. token' = token /\ issued' = [issued EXCEPT !.id = id, !.identifier = u, !.batch = b]
      BY <1>8 DEF CreateNonceProof
    <3> QED BY <1>0, <3>1 DEF RequestTyped
  <2>6. RequestTyped(issued')
    BY <2>5 DEF RequestTyped
  <2> HIDE DEF error, forbidden
  <2>7. Foreseen(IssuanceErrors, thrown)
    BY <2>1, <2>2, <2>3
  <2>8. answered' = answered \/ \E n \in Answers : \E e : Received(e, n) /\ n.status \in Statuses
    BY <1>answer, <2>4
  <2> QED BY <1>0, <2>3, <2>5, <2>6, <2>7, <2>8, TypedCall DEF FlowSteps
<1>9. ASSUME NEW a \in Answers, NEW d \in Grants, AuthorizeAccess(a, d)
      PROVE  FlowTyped'
  <2>1. Foreseen(IssuanceErrors, TokenErrorV1_0(a))
    BY AnswerForeseen DEF TokenErrorV1_0, IssuerError
  <2>2. Foreseen(IssuanceErrors, TokenErrorV1_3(a, d))
    <3>1. Foreseen(IssuanceErrors, SdkError("200", a))
      BY AnswerForeseen DEF SdkError
    <3> QED BY <1>own, <3>1 DEF TokenErrorV1_3
  <2>3. PICK error \in {TokenErrorV1_0(a), TokenErrorV1_3(a, d)} : EndsWith(error, "obtain")
    BY <1>9 DEF AuthorizeAccess
  <2>4. Received("token", a) /\ token' \in {token, d} /\ UNCHANGED issued
    BY <1>9 DEF AuthorizeAccess
  <2> QED BY <1>0, <1>answer, <2>1, <2>2, <2>3, <2>4, TypedCall DEF FlowSteps
<1>10. ASSUME NEW a \in Answers, NEW q \in Queries, GetJwtFromFormPost(a, q)
       PROVE  FlowTyped'
  <2>1. Foreseen(IssuanceErrors, IssuerError("200", a))
    BY AnswerForeseen DEF IssuerError
  <2>2. PICK error \in {IssuerError("200", a), ParseAuthorizationResponse(q)} :
          EndsWith(error, "token")
    BY <1>10 DEF GetJwtFromFormPost
  <2>3. Received("form", a) /\ UNCHANGED <<token, issued>>
    BY <1>10 DEF GetJwtFromFormPost
  <2> QED BY <1>0, <1>answer, <2>1, <2>2, <2>3, RedirectForeseen, TypedCall DEF FlowSteps
<1>11. ASSUME NEW a \in Answers, NEW s \in IssuerKeys \cup {"other"},
              GetRequestedCredentialToBePresented(a, s)
       PROVE  FlowTyped'
  <2>1. Foreseen(IssuanceErrors, ObjectErrorV1_0(a))
    BY AnswerForeseen DEF ObjectErrorV1_0, IssuerError
  <2>2. Foreseen(IssuanceErrors, ObjectErrorV1_3(a, s))
    BY <1>own, AnswerForeseen DEF ObjectErrorV1_3
  <2>3. PICK error \in {ObjectErrorV1_0(a), ObjectErrorV1_3(a, s)} : EndsWith(error, "present")
    BY <1>11 DEF GetRequestedCredentialToBePresented
  <2>4. Received("object", a) /\ UNCHANGED <<token, issued>>
    BY <1>11 DEF GetRequestedCredentialToBePresented
  <2> QED BY <1>0, <1>answer, <2>1, <2>2, <2>3, <2>4, TypedCall DEF FlowSteps
<1>12. ASSUME NEW a \in Answers, NEW s \in IssuerKeys \cup {"other"},
              CompleteWithFormPostJwtMode(a, s)
       PROVE  FlowTyped'
  <2>1. Foreseen(IssuanceErrors, SdkError("200", a))
    BY AnswerForeseen DEF SdkError
  <2>2. PICK error \in {Failure("IoWalletError"), SdkError("200", a),
                        Failure("Oauth2JwtVerifyError"), NoError} : EndsWith(error, "token")
    BY <1>12 DEF CompleteWithFormPostJwtMode
  <2>3. (Received("response", a) \/ UNCHANGED answered) /\ UNCHANGED <<token, issued>>
    BY <1>12 DEF CompleteWithFormPostJwtMode
  <2>4. answered' = answered \/ \E n \in Answers : \E e : Received(e, n) /\ n.status \in Statuses
    BY <1>answer, <2>3
  <2>5. Foreseen(IssuanceErrors, error)
    BY <1>own, <2>1, <2>2
  <2> QED BY <1>0, <2>2, <2>3, <2>4, <2>5, TypedCall DEF FlowSteps
<1>13. ASSUME NEW a \in Answers, NEW r \in BOOLEAN, NEW f \in {"none", "client", "other"},
              NEW q \in Queries, CompleteEaaUserAuthorizationWithQueryMode(a, r, f, q)
       PROVE  FlowTyped'
  <2>1. Foreseen(IssuanceErrors, SdkError("200", a))
    BY AnswerForeseen DEF SdkError
  <2>2. PICK error \in {SdkError("200", a), Failure("AuthorizationError"),
                        ParseAuthorizationResponse(q)} : EndsWith(error, "token")
    BY <1>13 DEF CompleteEaaUserAuthorizationWithQueryMode
  <2>3. Received("response", a) /\ UNCHANGED <<token, issued>>
    BY <1>13 DEF CompleteEaaUserAuthorizationWithQueryMode
  <2>4. Foreseen(IssuanceErrors, error)
    BY <1>own, <2>1, <2>2, RedirectForeseen
  <2> QED BY <1>0, <1>answer, <2>2, <2>3, <2>4, TypedCall DEF FlowSteps
<1>14. ASSUME NEW doc, NEW claims, NEW c \in Contexts, NEW root \in {"none", "root"},
              VerifyAndParseCredential(doc, claims, c, root)
       PROVE  FlowTyped'
  <2> DEFINE config == [format |-> FormatOf[issued.id], claims |-> claims]
  <2>1. PICK error \in VerificationErrors : EndsWith(error, "done")
    <3>1. PICK error \in {VerifyAndParseCredentialV1_0(config, IssuerKeys, doc, c, root).error,
                          VerifyAndParseCredentialV1_3(config, IssuerKeys, doc, c, root).error} :
            EndsWith(error, "done")
      BY <1>14 DEF VerifyAndParseCredential
    <3> HIDE DEF config
    <3> QED BY <3>1, VerificationThrows
  <2>2. Foreseen(IssuanceErrors, error)
    BY <2>1, IssuanceFailures, OwnIssuanceErrors DEF VerificationErrors
  <2>3. UNCHANGED <<token, answered>> /\ issued' = [issued EXCEPT !.claims = claims]
    BY <1>14 DEF VerifyAndParseCredential
  <2>4. RequestTyped(issued')
    BY <1>0, <2>3 DEF RequestTyped
  <2> QED BY <1>0, <2>1, <2>2, <2>3, <2>4, TypedCall DEF FlowSteps
<1> QED BY <1>1, <1>2, <1>3, <1>4, <1>5, <1>6, <1>7, <1>8, <1>9, <1>10, <1>11, <1>12, <1>13,
           <1>14 DEF FlowNext

(***************************************************************************)
(* Presentation.                                                           *)
(***************************************************************************)

PartySteps ==
  {"idle", "request", "verify", "evaluate", "prepare", "send", "sent", "refused", "failed"}

ConfTyped(c) ==
  c # NoConf => c.subject \in Parties /\ \E p \in Parties : c.keys \subseteq KeysOf[p]

PartyTyped ==
  /\ rpStep \in PartySteps
  /\ ConfTyped(rpConf)
  /\ request \in RequestObjects \cup {NoRequest}
  /\ rpAnswered \in PartyStatuses \cup {"none", "lost"}
  /\ Foreseen(PresentationErrors, rpFailure)

LEMMA PresentationFailures ==
  /\ Foreseen(PresentationErrors, NoError)
  /\ \A class \in {"InvalidQRCodeError", "InvalidRequestObjectError", "IoWalletError",
                   "MissingX509CertsError", "X509ValidationError", "CredentialsNotFoundError",
                   "NoSuitableKeysFoundInEntityConfiguration", "TypeError"} :
       Foreseen(PresentationErrors, Failure(class))
BY FailureOK DEF Foreseen, PresentationErrors, PartyErrors

LEMMA PartyAnswerForeseen ==
  ASSUME NEW a \in PartyAnswers
  PROVE  /\ Foreseen(PresentationErrors, HasStatusOrThrow("200", "RelyingPartyResponseError", a))
         /\ Foreseen(PresentationErrors, MapSdkFetchAuthRequestError(
                       HasStatusOrThrow("200", "SdkUnexpectedStatusCode", a)))
         /\ Foreseen(PresentationErrors, HandleAuthorizationResponseErrorV1_0(
                       HasStatusOrThrow("200", "UnexpectedStatusCodeError", a)))
         /\ Foreseen(PresentationErrors, MapSdkAuthorizationResponseError(
                       HasStatusOrThrow("200", "SdkUnexpectedStatusCode", a)))
<1> DEFINE e1 == HasStatusOrThrow("200", "RelyingPartyResponseError", a)
           e2 == HasStatusOrThrow("200", "SdkUnexpectedStatusCode", a)
           e3 == HasStatusOrThrow("200", "UnexpectedStatusCodeError", a)
<1>1. /\ a.status \in ErrorStatuses /\ a.body \in ErrorReasons
      /\ {"RelyingPartyResponseError", "SdkUnexpectedStatusCode", "UnexpectedStatusCodeError"}
           \subseteq DOMAIN DefaultCode
  BY DEF PartyAnswers, ErrorStatuses, ErrorReasons, DefaultCode
<1>2. /\ ErrorOK(e1) /\ e1.class \in {"RelyingPartyResponseError", "none"}
      /\ ErrorOK(e2) /\ e2.class \in {"SdkUnexpectedStatusCode", "none"}
      /\ ErrorOK(e3) /\ e3.class \in {"UnexpectedStatusCodeError", "none"}
  BY <1>1, HasStatusOrThrowOK
<1> HIDE DEF e1, e2, e3
<1>3. Foreseen(PresentationErrors, e1)
  BY <1>2 DEF Foreseen, PresentationErrors
<1>4. Foreseen(PresentationErrors, MapSdkFetchAuthRequestError(e2))
  BY <1>2, PresentationHandlersOK DEF Foreseen, PresentationErrors
<1>5. Foreseen(PresentationErrors, HandleAuthorizationResponseErrorV1_0(e3))
  BY <1>2, PresentationHandlersOK DEF Foreseen, PresentationErrors
<1>6. Foreseen(PresentationErrors, MapSdkAuthorizationResponseError(e2))
  BY <1>2, PresentationHandlersOK DEF Foreseen, PresentationErrors
<1> QED BY <1>3, <1>4, <1>5, <1>6 DEF e1, e2, e3

\* To a post there may be no answer.
LEMMA PostAnswerForeseen ==
  ASSUME NEW a \in PostAnswers
  PROVE  /\ Foreseen(PresentationErrors, ResponseError(a))
         /\ Foreseen(PresentationErrors, RefusalError(a))
<1>1. CASE a = LostAnswer
  <2> DEFINE error == Failure("SdkFetchAuthorizationResponseError")
  <2>1. ErrorOK(error) /\ error.class = "SdkFetchAuthorizationResponseError"
    BY FailureOK DEF PartyErrors
  <2> HIDE DEF error
  <2>2. Foreseen(PresentationErrors, MapSdkAuthorizationResponseError(error))
    BY <2>1, PresentationHandlersOK DEF Foreseen, PresentationErrors
  <2>3. Foreseen(PresentationErrors, Failure("TypeError"))
    BY PresentationFailures
  <2> QED BY <1>1, <2>2, <2>3 DEF ResponseError, RefusalError, error
<1>2. CASE a # LostAnswer
  <2>1. a \in PartyAnswers
    BY <1>2 DEF PostAnswers
  <2> QED BY <1>2, <2>1, PartyAnswerForeseen DEF ResponseError, RefusalError
<1> QED BY <1>1, <1>2

LEMMA VerificationForeseen ==
  /\ Foreseen(PresentationErrors, VerifyRequestObjectV1_0)
  /\ Foreseen(PresentationErrors, VerifyRequestObjectV1_3)
<1>1. ErrorOK(Failure("SdkValidationError"))
  BY FailureOK DEF PartyErrors
<1>2. Foreseen(PresentationErrors, MapSdkRequestObjectError(Failure("SdkValidationError")))
  BY <1>1, PresentationHandlersOK DEF Foreseen, PresentationErrors
<1> QED BY <1>2, PresentationFailures
        DEF VerifyRequestObjectV1_0, VerifyRequestObjectV1_3, InvalidRequestObject

LEMMA KeyErrorForeseen == Foreseen(PresentationErrors, KeyError)
<1> DEFINE error == Failure("SdkCreateAuthorizationResponseError")
<1>1. ErrorOK(error) /\ error.class = "SdkCreateAuthorizationResponseError"
  BY FailureOK DEF PartyErrors
<1> HIDE DEF error
<1>2. Foreseen(PresentationErrors, MapSdkAuthorizationResponseError(error))
  BY <1>1, PresentationHandlersOK DEF Foreseen, PresentationErrors
<1> QED BY <1>2, PresentationFailures DEF KeyError, error

LEMMA TypedPartyCall ==
  ASSUME PartyTyped, NEW error, NEW next \in PartySteps, CallEnds(error, next),
         Foreseen(PresentationErrors, error),
         rpAnswered' = rpAnswered \/ rpAnswered' \in PartyStatuses \cup {"lost"},
         request' = request \/ request' \in RequestObjects, rpConf' = rpConf
  PROVE  PartyTyped'
<1>1. rpFailure' = error /\ rpStep' \in PartySteps
  BY DEF CallEnds, PartySteps
<1>2. Foreseen(PresentationErrors, rpFailure')
  BY <1>1
<1> QED BY <1>1, <1>2 DEF PartyTyped, ConfTyped, Foreseen, ErrorOK, CodesOf, NoRequest

LEMMA PostStatus ==
  ASSUME NEW a \in PostAnswers
  PROVE  a.status \in PartyStatuses \cup {"lost"}
BY DEF PostAnswers, PartyAnswers, LostAnswer

LEMMA PartyTypedStep ==
  ASSUME PartyTyped, RelyingPartyNext
  PROVE  PartyTyped'
<1>1. ASSUME NEW v, NEW c, NEW u \in BOOLEAN, NEW p, NEW s, StartFlowFromQR(v, c, p, s, u)
      PROVE  PartyTyped'
  <2>1. PICK error \in {NoError, Failure("InvalidQRCodeError")} : CallEnds(error, "request")
    BY <1>1 DEF StartFlowFromQR
  <2>2. UNCHANGED <<rpConf, request, rpAnswered>>
    BY <1>1 DEF StartFlowFromQR
  <2> QED BY <2>1, <2>2, PresentationFailures, TypedPartyCall DEF PartySteps
<1>2. ASSUME NEW p \in Parties, NEW q \in Parties, NEW uses,
             EvaluateRelyingPartyTrust(p, {k \in KeysOf[q] : k.use \in uses})
      PROVE  PartyTyped'
  <2>1. /\ rpConf' = [subject |-> p, keys |-> {k \in KeysOf[q] : k.use \in uses}]
        /\ UNCHANGED <<rpStep, request, rpFailure, rpAnswered>>
    BY <1>2 DEF EvaluateRelyingPartyTrust
  <2>2. ConfTyped(rpConf')
    BY <2>1 DEF ConfTyped
  <2> QED BY <2>1, <2>2 DEF PartyTyped, ConfTyped, Foreseen, ErrorOK, CodesOf, NoRequest
<1>3. ASSUME NEW a \in PartyAnswers, NEW o \in RequestObjects, GetRequestObject(a, o)
      PROVE  PartyTyped'
  <2>1. PICK error \in {HasStatusOrThrow("200", "RelyingPartyResponseError", a),
                        MapSdkFetchAuthRequestError(
                          HasStatusOrThrow("200", "SdkUnexpectedStatusCode", a))} :
          CallEnds(error, "verify")
    BY <1>3 DEF GetRequestObject
  <2>2. request' \in {request, o} /\ rpAnswered' \in PartyStatuses /\ rpConf' = rpConf
    BY <1>3 DEF GetRequestObject, PartyAnswers
  <2>3. Foreseen(PresentationErrors, error)
    BY <2>1, PartyAnswerForeseen
  <2> QED BY <2>1, <2>2, <2>3, TypedPartyCall DEF PartySteps
<1>4. ASSUME NEW a \in PostAnswers, SendAuthorizationResponse(a)
      PROVE  PartyTyped'
  <2>1. PICK error \in {KeyError, ResponseError(a)} : CallEnds(error, "sent")
    BY <1>4 DEF SendAuthorizationResponse
  <2>2. /\ request' = request /\ rpConf' = rpConf
        /\ rpAnswered' = rpAnswered \/ rpAnswered' \in PartyStatuses \cup {"lost"}
    BY <1>4, PostStatus DEF SendAuthorizationResponse
  <2>3. Foreseen(PresentationErrors, error)
    BY <2>1, PostAnswerForeseen, KeyErrorForeseen
  <2> QED BY <2>1, <2>2, <2>3, TypedPartyCall DEF PartySteps
<1>5. ASSUME NEW a \in PostAnswers, SendAuthorizationErrorResponse(a)
      PROVE  PartyTyped'
  <2>1. /\ CallEnds(RefusalError(a), "refused")
        /\ request' = request /\ rpConf' = rpConf /\ rpAnswered' \in PartyStatuses \cup {"lost"}
    BY <1>5, PostStatus DEF SendAuthorizationErrorResponse
  <2> QED BY <2>1, PostAnswerForeseen, TypedPartyCall DEF PartySteps
<1>6. ASSUME NEW x, NEW root, VerifyAuthRequestCertificateChain(x, root)
      PROVE  PartyTyped'
  <2>1. PICK error \in {Failure("MissingX509CertsError"), NoError, Failure("X509ValidationError")} :
          CallEnds(error, "verify")
    BY <1>6 DEF VerifyAuthRequestCertificateChain
  <2>2. UNCHANGED <<rpConf, request, rpAnswered>>
    BY <1>6 DEF VerifyAuthRequestCertificateChain
  <2> QED BY <2>1, <2>2, PresentationFailures, TypedPartyCall DEF PartySteps
<1>7. CASE VerifyRequestObject
  <2>1. PICK error \in {VerifyRequestObjectV1_0, VerifyRequestObjectV1_3} :
          CallEnds(error, "evaluate")
    BY <1>7 DEF VerifyRequestObject
  <2>2. UNCHANGED <<rpConf, request, rpAnswered>>
    BY <1>7 DEF VerifyRequestObject
  <2> QED BY <2>1, <2>2, VerificationForeseen, TypedPartyCall DEF PartySteps
<1>8. ASSUME NEW h, NEW q, EvaluateDcqlQuery(h, q)
      PROVE  PartyTyped'
  <2>1. PICK error \in {NoError, Failure("CredentialsNotFoundError")} : CallEnds(error, "prepare")
    BY <1>8 DEF EvaluateDcqlQuery
  <2>2. UNCHANGED <<rpConf, request, rpAnswered>>
    BY <1>8 DEF EvaluateDcqlQuery
  <2> QED BY <2>1, <2>2, PresentationFailures, TypedPartyCall DEF PartySteps
<1>9. CASE PrepareRemotePresentations
  BY <1>9 DEF PrepareRemotePresentations, PartyTyped, ConfTyped, PartySteps, Foreseen, ErrorOK, CodesOf,
              NoRequest
<1> QED BY <1>1, <1>2, <1>3, <1>4, <1>5, <1>6, <1>7, <1>8, <1>9 DEF RelyingPartyNext

(***************************************************************************)
(* The wallet provider.                                                    *)
(***************************************************************************)

ProviderTyped ==
  /\ wpStep \in {"idle", "nonce", "integrity", "create", "sign", "attest", "attested", "failed"}
  /\ hardwareKeys \subseteq HardwareTags
  /\ wpCall.op = "create" => wpCall.tag \in HardwareTags
  /\ Foreseen(ProviderErrors, wpFailure)

LEMMA ProviderFailures ==
  /\ Foreseen(ProviderErrors, NoError)
  /\ \A class \in {"IntegrityError", "ZodError", "TypeError", "Error"} :
       Foreseen(ProviderErrors, Failure(class))
BY FailureOK DEF Foreseen, ProviderErrors, PartyErrors

LEMMA ProviderAnswerForeseen ==
  ASSUME NEW a \in AllProviderAnswers
  PROVE  /\ Foreseen(ProviderErrors, AnswerOf(a))
         /\ Foreseen(ProviderErrors, HandleCreateWalletInstanceError(AnswerOf(a)))
         /\ Foreseen(ProviderErrors, HandleAttestationCreationError(AnswerOf(a)))
<1> DEFINE b == [a EXCEPT !.body = IF @ = "problem" THEN @ ELSE "invalidResponse"]
<1>1. /\ b.status \in ErrorStatuses /\ b.body \in ErrorReasons
      /\ "WalletProviderResponseError" \in DOMAIN DefaultCode
  BY DEF AllProviderAnswers, ErrorStatuses, ErrorReasons, DefaultCode
<1>2. AnswerOf(a) \in {Failure("TypeError"), NoError,
                       UnexpectedStatus("WalletProviderResponseError", b)}
  BY DEF AnswerOf, ValidateResponse
<1> HIDE DEF b
<1>3. Foreseen(ProviderErrors, UnexpectedStatus("WalletProviderResponseError", b))
  BY <1>1, UnexpectedStatusOK DEF Foreseen, ProviderErrors
<1>4. Foreseen(ProviderErrors, AnswerOf(a))
  BY <1>2, <1>3, ProviderFailures
<1>5. /\ Foreseen(ProviderErrors, HandleCreateWalletInstanceError(AnswerOf(a)))
      /\ Foreseen(ProviderErrors, HandleAttestationCreationError(AnswerOf(a)))
  BY <1>4, HandlersOK DEF Foreseen, ProviderErrors
<1> QED BY <1>4, <1>5

LEMMA TypedProviderCall ==
  ASSUME ProviderTyped, NEW error,
         NEW next \in {"idle", "nonce", "integrity", "create", "sign", "attest", "attested"},
         ProviderCallEnds(error, next), Foreseen(ProviderErrors, error),
         hardwareKeys' \subseteq HardwareTags,
         wpCall'.op = "create" => wpCall'.tag \in HardwareTags
  PROVE  ProviderTyped'
<1>1. wpFailure' = error /\ wpStep' \in {next, "failed"}
  BY DEF ProviderCallEnds
<1>2. Foreseen(ProviderErrors, wpFailure')
  BY <1>1
<1> QED BY <1>1, <1>2 DEF ProviderTyped, Foreseen, ErrorOK, CodesOf

LEMMA ProviderTypedStep ==
  ASSUME ProviderInvariant, ProviderTyped, WalletProviderNext
  PROVE  ProviderTyped'
<1>0. /\ hardwareKeys \subseteq HardwareTags /\ (wpCall.op = "create" => wpCall.tag \in HardwareTags)
      /\ wpStep \in {"integrity", "create"} => wpCall.op = "create"
  BY DEF ProviderTyped, ProviderInvariant
<1>1. ASSUME NEW b \in BOOLEAN, NEW n \in BOOLEAN, EnsureIntegrityServiceIsReady(b, n)
      PROVE  ProviderTyped'
  <2>1. PICK error \in {NoError, Failure("Error")} : ProviderCallEnds(error, "idle")
    BY <1>1 DEF EnsureIntegrityServiceIsReady, UnsupportedPlatform
  <2>2. UNCHANGED <<wpCall, hardwareKeys>>
    BY <1>1 DEF EnsureIntegrityServiceIsReady
  <2> QED BY <1>0, <2>1, <2>2, ProviderFailures, TypedProviderCall
<1>2. ASSUME NEW t \in HardwareTags, GenerateIntegrityHardwareKeyTag(t)
      PROVE  ProviderTyped'
  <2>1. PICK error \in {NoError, Failure("Error")} : ProviderCallEnds(error, "nonce")
    BY <1>2 DEF GenerateIntegrityHardwareKeyTag, UnsupportedPlatform
  <2>2. /\ wpCall' = wpCall \/ wpCall' = [op |-> "create", tag |-> t]
        /\ hardwareKeys' \in {hardwareKeys, hardwareKeys \cup {t}}
    BY <1>2 DEF GenerateIntegrityHardwareKeyTag
  <2> QED BY <1>0, <2>1, <2>2, ProviderFailures, TypedProviderCall
<1>3. CASE GetHardwareSignature
  <2>1. PICK error \in {NoError, Failure("IntegrityError")} : ProviderCallEnds(error, "attest")
    BY <1>3 DEF GetHardwareSignature
  <2>2. UNCHANGED <<wpCall, hardwareKeys>>
    BY <1>3 DEF GetHardwareSignature
  <2> QED BY <1>0, <2>1, <2>2, ProviderFailures, TypedProviderCall
<1>4. ASSUME NEW attested \in BOOLEAN, GetIntegrityAttestation(attested)
      PROVE  ProviderTyped'
  <2>1. PICK error \in {NoError, Failure("IntegrityError")} : ProviderCallEnds(error, "create")
    BY <1>4 DEF GetIntegrityAttestation
  <2>2. /\ wpStep = "integrity" /\ wpCall' = wpCall
        /\ hardwareKeys' \in {hardwareKeys, hardwareKeys \cup {wpCall.tag}}
    BY <1>4 DEF GetIntegrityAttestation
  <2> QED BY <1>0, <2>1, <2>2, ProviderFailures, TypedProviderCall
<1>5. ASSUME NEW t \in HardwareTags, GetAttestationV1_0(t)
      PROVE  ProviderTyped'
  <2>1. /\ wpStep' = "nonce" /\ wpCall' = [op |-> "attest", tag |-> t]
        /\ UNCHANGED <<hardwareKeys, wpFailure>>
    BY <1>5 DEF GetAttestationV1_0
  <2> QED BY <2>1 DEF ProviderTyped, Foreseen, ErrorOK, CodesOf
<1>6. CASE GetNonce
  <2>1. PICK a \in ProviderAnswers("nonce") :
          ProviderCallEnds(AnswerOf(a), IF wpCall.op = "create" THEN "integrity" ELSE "sign")
    BY <1>6 DEF GetNonce
  <2>2. a \in AllProviderAnswers
    BY DEF ProviderAnswers, ProviderStatuses, AllProviderAnswers
  <2>3. UNCHANGED <<wpCall, hardwareKeys>>
    BY <1>6 DEF GetNonce
  <2>4. Foreseen(ProviderErrors, AnswerOf(a))
    BY <2>2, ProviderAnswerForeseen
  <2>5. CASE wpCall.op = "create"
    BY <1>0, <2>1, <2>3, <2>4, <2>5, TypedProviderCall
  <2>6. CASE wpCall.op # "create"
    BY <1>0, <2>1, <2>3, <2>4, <2>6, TypedProviderCall
  <2> QED BY <2>5, <2>6
<1>7. CASE CreateWalletInstance
  <2>1. PICK a \in ProviderAnswers("create") :
          ProviderCallEnds(HandleCreateWalletInstanceError(AnswerOf(a)), "idle")
    BY <1>7 DEF CreateWalletInstance
  <2>2. a \in AllProviderAnswers
    BY DEF ProviderAnswers, ProviderStatuses, AllProviderAnswers
  <2>3. UNCHANGED <<wpCall, hardwareKeys>>
    BY <1>7 DEF CreateWalletInstance
  <2>4. Foreseen(ProviderErrors, HandleCreateWalletInstanceError(AnswerOf(a)))
    BY <2>2, ProviderAnswerForeseen
  <2> QED BY <1>0, <2>1, <2>3, <2>4, TypedProviderCall
<1>8. CASE RequestAttestationV1_0
  <2>1. PICK a \in ProviderAnswers("attest") :
          ProviderCallEnds(
            IF a.status = "200" /\ a.body = "other" THEN Failure("ZodError")
            ELSE HandleAttestationCreationError(AnswerOf(a)), "attested")
    BY <1>8 DEF RequestAttestationV1_0
  <2>2. a \in AllProviderAnswers
    BY DEF ProviderAnswers, ProviderStatuses, AllProviderAnswers
  <2>3. UNCHANGED <<wpCall, hardwareKeys>>
    BY <1>8 DEF RequestAttestationV1_0
  <2>4. Foreseen(ProviderErrors, HandleAttestationCreationError(AnswerOf(a)))
    BY <2>2, ProviderAnswerForeseen
  <2>5. PICK error \in {Failure("ZodError"), HandleAttestationCreationError(AnswerOf(a))} :
          ProviderCallEnds(error, "attested")
    BY <2>1
  <2>6. Foreseen(ProviderErrors, error)
    BY <2>4, <2>5, ProviderFailures
  <2> QED BY <1>0, <2>3, <2>5, <2>6, TypedProviderCall
<1>9. ASSUME NEW t \in HardwareTags, RevokeWalletInstance(t) \/ GetWalletInstanceStatus(t)
      PROVE  ProviderTyped'
  <2>1. PICK status \in {"200", "404", "500", "none"}, op \in {"revoke", "status"} :
          /\ ProviderCallEnds(AnswerOf([status |-> status, body |-> "problem"]), "idle")
          /\ wpCall' = [op |-> op, tag |-> t]
    BY <1>9 DEF RevokeWalletInstance, GetWalletInstanceStatus, ProviderStatuses
  <2>2. UNCHANGED hardwareKeys
    BY <1>9 DEF RevokeWalletInstance, GetWalletInstanceStatus
  <2> DEFINE a == [status |-> status, body |-> "problem"]
  <2>3. a \in AllProviderAnswers
    BY DEF AllProviderAnswers
  <2>4. wpCall'.op # "create"
    <3>1. PICK o \in {"revoke", "status"} : wpCall' = [op |-> o, tag |-> t]
      BY <2>1
    <3> QED BY <3>1
  <2> HIDE DEF a
  <2> QED BY <1>0, <2>1, <2>2, <2>3, <2>4, ProviderAnswerForeseen, TypedProviderCall DEF a
<1>10. ASSUME NEW t \in HardwareTags, RevokedByProvider(t) PROVE ProviderTyped'
  BY <1>10 DEF RevokedByProvider, ProviderTyped, Foreseen, ErrorOK, CodesOf
<1>11. CASE NextCall
  <2>1. /\ wpStep' = "idle" /\ wpCall' = NoProviderCall /\ wpFailure' = NoError
        /\ UNCHANGED hardwareKeys
    BY <1>11 DEF NextCall
  <2>2. Foreseen(ProviderErrors, wpFailure')
    BY <2>1, ProviderFailures
  <2> QED BY <2>1, <2>2 DEF ProviderTyped, NoProviderCall, Foreseen, ErrorOK, CodesOf
<1> QED BY <1>1, <1>2, <1>3, <1>4, <1>5, <1>6, <1>7, <1>8, <1>9, <1>10, <1>11
    DEF WalletProviderNext

(***************************************************************************)
(* The catalogue.                                                          *)
(***************************************************************************)

CatalogueTyped ==
  /\ revision \in DOMAIN Publications
  /\ DOMAIN registries \subseteq RegistryNames
  /\ catStatus \in [catalogue : AsyncStatuses, translations : AsyncStatuses]

LEMMA CatalogueTypedStep ==
  ASSUME CatalogueTyped, CatalogueNext
  PROVE  CatalogueTyped'
<1> USE DEF CatalogueTyped, AsyncStatuses
<1>1. ASSUME Rejects, UNCHANGED revision PROVE CatalogueTyped'
  BY <1>1 DEF Rejects
<1>2. ASSUME NEW result, NEW fetched, Fulfils(result, fetched), UNCHANGED revision
      PROVE  CatalogueTyped'
  BY <1>2 DEF Fulfils
<1>3. CASE Publish
  BY <1>3 DEF Publish
<1>4. ASSUME NEW v \in CatVersions, GetCredentialsCatalogue(v) PROVE CatalogueTyped'
  BY <1>4 DEF GetCredentialsCatalogue
<1>5. ASSUME NEW v \in CatVersions, GetTranslations(v) PROVE CatalogueTyped'
  BY <1>5 DEF GetTranslations, RejectTranslations
<1>6. ASSUME NEW b \in BOOLEAN, AnchorAnswers(b) PROVE CatalogueTyped'
  BY <1>1, <1>6 DEF AnchorAnswers
<1>7. ASSUME NEW b \in BOOLEAN, TranslationsAnswered("it", b) PROVE CatalogueTyped'
  BY <1>7 DEF TranslationsAnswered, RejectTranslations
<1>8. ASSUME NEW a \in RegistryAnswers, DiscoveryAnswers(a) PROVE CatalogueTyped'
  BY <1>1, <1>8 DEF DiscoveryAnswers
<1>9. ASSUME NEW a \in RegistryAnswers, DocumentAnswers(a) PROVE CatalogueTyped'
  BY <1>1, <1>2, <1>9 DEF DocumentAnswers
<1>10. ASSUME NEW a \in RegistryAnswers, NEW name \in RegistryNames, RegistryAnswered(name, a)
       PROVE  CatalogueTyped'
  <2> DEFINE signer  == IF a.type = "json" THEN "json" ELSE a.signer
             fetched == [n \in DOMAIN registries \cup {name} |->
                           IF n = name THEN [signer |-> signer, revision |-> revision]
                                       ELSE registries[n]]
             mapped  == MapToCredentialsCatalogue(fetched)
  <2>1. DOMAIN fetched \subseteq RegistryNames
    OBVIOUS
  <2>2. /\ UNCHANGED revision
        /\ \/ Rejects
           \/ registries' = fetched /\ UNCHANGED catStatus
           \/ Fulfils(mapped.catalogue, fetched)
    <3> HIDE DEF mapped
    <3> QED BY <1>10 DEF RegistryAnswered, mapped
  <2> HIDE DEF fetched, mapped
  <2> QED BY <1>1, <1>2, <2>1, <2>2
<1> QED BY <1>3, <1>4, <1>5, <1>6, <1>7, <1>8, <1>9, <1>10 DEF CatalogueNext

(***************************************************************************)
(* Offers.                                                                 *)
(***************************************************************************)

OfferTyped ==
  /\ offerScreen \in {"closed", "open", "scanning"}
  /\ offerSlice.status \in AsyncStatuses
  /\ \A t \in Scans : Foreseen(OfferErrors, offerThunk[t].error)

LEMMA OfferFailures ==
  /\ Foreseen(OfferErrors, NoError)
  /\ \A class \in {"InvalidQRCodeError", "InvalidCredentialOfferError", "TypeError", "Error",
                   "UnimplementedFeatureError", "SdkUnexpectedStatusCode"} :
       Foreseen(OfferErrors, Failure(class))
BY FailureOK DEF Foreseen, OfferErrors, PartyErrors

\* The error of the SDK for an offer reaches no caller.
LEMMA OfferErrorMapped ==
  ASSUME NEW error \in {NoError, Failure("CredentialOfferError"), Failure("TypeError")},
         NEW class \in {"InvalidQRCodeError", "InvalidCredentialOfferError"}
  PROVE  Foreseen(OfferErrors, WithMappedErrors(error, "CredentialOfferError", Failure(class)))
<1>1. /\ Failure("CredentialOfferError").class = "CredentialOfferError"
      /\ NoError.class # "CredentialOfferError"
      /\ Failure("TypeError").class # "CredentialOfferError"
  BY DEF Failure, NoError, StatusError
<1> QED BY <1>1, OfferFailures DEF WithMappedErrors, InstanceOf

\* The thunk of one scan ends with an error that is foreseen, or goes on.
LEMMA TypedThunk ==
  ASSUME OfferInvariant, OfferTyped, NEW t \in Scans,
         UNCHANGED offerScreen,
         \/ \E next : OfferGoesOn(t, next)
         \/ \E error : OfferRejected(t, error) /\ Foreseen(OfferErrors, error)
  PROVE  OfferTyped'
<1>0. /\ DOMAIN offerThunk = Scans /\ IsThunk(offerThunk[t])
      /\ offerSlice = [offer |-> offerSlice.offer, status |-> offerSlice.status]
  BY DEF OfferInvariant, OfferTypes
<1>1. CASE \E next : OfferGoesOn(t, next)
  <2>1. PICK next : OfferGoesOn(t, next)
    BY <1>1
  <2>2. /\ \A u \in Scans : u # t => offerThunk'[u] = offerThunk[u]
        /\ offerThunk'[t] = [offerThunk[t] EXCEPT !.at = next] /\ UNCHANGED offerSlice
    BY <1>0, <2>1 DEF OfferGoesOn
  <2>3. offerThunk'[t].error = offerThunk[t].error
    BY <1>0, <2>2 DEF IsThunk
  <2>4. \A u \in Scans : offerThunk'[u].error = offerThunk[u].error
    BY <2>2, <2>3
  <2>5. \A u \in Scans : Foreseen(OfferErrors, offerThunk'[u].error)
    BY <2>4 DEF OfferTyped
  <2> QED BY <2>2, <2>5 DEF OfferTyped, Foreseen, ErrorOK, CodesOf, AsyncStatuses
<1>2. ASSUME NEW error, OfferRejected(t, error), Foreseen(OfferErrors, error)
      PROVE  OfferTyped'
  <2>1. /\ \A u \in Scans : u # t => offerThunk'[u] = offerThunk[u]
        /\ offerThunk'[t] = [offerThunk[t] EXCEPT !.at = "failed", !.error = error]
        /\ offerSlice' = [offerSlice EXCEPT !.status = "error"]
    BY <1>0, <1>2 DEF OfferRejected
  <2>2. offerThunk'[t].error = error /\ offerSlice'.status = "error"
    BY <1>0, <2>1 DEF IsThunk
  <2>3. \A u \in Scans : Foreseen(OfferErrors, offerThunk'[u].error)
    <3>1. ASSUME NEW u \in Scans PROVE Foreseen(OfferErrors, offerThunk'[u].error)
      <4>1. CASE u = t
        BY <1>2, <2>2, <4>1
      <4>2. CASE u # t
        BY <2>1, <4>2 DEF OfferTyped
      <4> QED BY <4>1, <4>2
    <3> QED BY <3>1
  <2> QED BY <2>2, <2>3 DEF OfferTyped, Foreseen, ErrorOK, CodesOf, AsyncStatuses
<1> QED BY <1>1, <1>2

LEMMA OfferTypedStep ==
  ASSUME OfferInvariant, OfferTyped, OfferNext
  PROVE  OfferTyped'
<1>0. /\ DOMAIN offerThunk = Scans /\ \A t \in Scans : IsThunk(offerThunk[t])
      /\ offerSlice = [offer |-> offerSlice.offer, status |-> offerSlice.status]
  BY DEF OfferInvariant, OfferTypes
<1>1. CASE OpenOffers \/ OpenScanner
  BY <1>1 DEF OpenOffers, OpenScanner, OfferTyped, Foreseen, ErrorOK, CodesOf, AsyncStatuses
<1>2. CASE CloseOffers \/ SessionResets
  BY <1>2 DEF CloseOffers, SessionResets, EmptySlice, OfferTyped, Foreseen, ErrorOK, CodesOf,
              AsyncStatuses
<1>3. ASSUME NEW t \in Scans, NEW v \in OfferVersions, HandleCodeScanned(t, v)
      PROVE  OfferTyped'
  <2>1. /\ \A u \in Scans : u # t => offerThunk'[u] = offerThunk[u]
        /\ offerThunk'[t] = [offerThunk[t] EXCEPT !.at = "resolve", !.version = v]
        /\ offerSlice' = [offerSlice EXCEPT !.status = "loading"] /\ offerScreen' = "open"
    BY <1>0, <1>3 DEF HandleCodeScanned
  <2>2. offerThunk'[t].error = offerThunk[t].error /\ offerSlice'.status = "loading"
    BY <1>0, <2>1 DEF IsThunk
  <2>3. \A u \in Scans : Foreseen(OfferErrors, offerThunk'[u].error)
    BY <2>1, <2>2 DEF OfferTyped
  <2> QED BY <2>1, <2>2, <2>3 DEF OfferTyped, Foreseen, ErrorOK, CodesOf, AsyncStatuses
<1>4. ASSUME NEW t \in Scans, NEW offer \in Offers,
             NEW error \in {NoError, Failure("CredentialOfferError"), Failure("TypeError")},
             ResolveCredentialOffer(t, offer, error)
      PROVE  OfferTyped'
  <2> DEFINE mapped   == WithMappedErrors(error, "CredentialOfferError",
                                          Failure("InvalidQRCodeError"))
             resolved == Unimplemented(t, mapped)
  <2>1. Foreseen(OfferErrors, resolved)
    <3>1. Foreseen(OfferErrors, mapped)
      BY OfferErrorMapped
    <3> HIDE DEF mapped
    <3> QED BY <3>1, OfferFailures DEF Unimplemented
  <2>2. /\ UNCHANGED offerScreen
        /\ \/ OfferRejected(t, resolved)
           \/ OfferRejected(t, Failure("Error"))
           \/ /\ offerThunk' = [offerThunk EXCEPT ![t].at = "grant", ![t].offer = offer]
              /\ UNCHANGED offerSlice
    BY <1>4 DEF ResolveCredentialOffer
  <2> HIDE DEF resolved
  <2>3. CASE OfferRejected(t, resolved) \/ OfferRejected(t, Failure("Error"))
    BY <2>1, <2>2, <2>3, OfferFailures, TypedThunk
  <2>4. CASE /\ offerThunk' = [offerThunk EXCEPT ![t].at = "grant", ![t].offer = offer]
             /\ UNCHANGED offerSlice
    <3>1. /\ \A u \in Scans : u # t => offerThunk'[u] = offerThunk[u]
          /\ offerThunk'[t] = [offerThunk[t] EXCEPT !.at = "grant", !.offer = offer]
      BY <1>0, <2>4
    <3>2. offerThunk'[t].error = offerThunk[t].error
      BY <1>0, <3>1 DEF IsThunk
    <3>3. \A u \in Scans : Foreseen(OfferErrors, offerThunk'[u].error)
      BY <3>1, <3>2 DEF OfferTyped
    <3> QED BY <2>2, <2>4, <3>3 DEF OfferTyped, Foreseen, ErrorOK, CodesOf, AsyncStatuses
  <2> QED BY <2>2, <2>3, <2>4
<1>5. ASSUME NEW t \in Scans, ValidateOffer(t)
      PROVE  OfferTyped'
  <2> DEFINE error == ValidateCredentialOffer(offerThunk[t].offer, issuerConf[t].servers)
  <2>1. Continue(t, error, "issue") /\ UNCHANGED offerScreen
    BY <1>5 DEF ValidateOffer
  <2>2. Foreseen(OfferErrors, error)
    BY OfferErrorMapped DEF ValidateCredentialOffer, InvalidOffer
  <2> HIDE DEF error
  <2> QED BY <2>1, <2>2, TypedThunk DEF Continue
<1>6. ASSUME NEW t \in Scans, NEW ready \in BOOLEAN, ExtractGrantDetails(t, ready)
      PROVE  OfferTyped'
  <2> DEFINE error == IF ~ready THEN Failure("Error")
                      ELSE IF offerThunk[t].offer.grant = "authorization_code" THEN NoError
                      ELSE InvalidOffer(Failure("CredentialOfferError"))
  <2>1. Continue(t, error, "trust") /\ UNCHANGED offerScreen
    BY <1>6 DEF ExtractGrantDetails
  <2>2. Foreseen(OfferErrors, error)
    <3>1. Foreseen(OfferErrors, InvalidOffer(Failure("CredentialOfferError")))
      BY OfferErrorMapped DEF InvalidOffer
    <3> QED BY <3>1, OfferFailures
  <2> HIDE DEF error
  <2> QED BY <2>1, <2>2, TypedThunk DEF Continue
<1>7. ASSUME NEW t \in Scans, NEW obtained \in BOOLEAN, NEW described \in BOOLEAN,
             EvaluateIssuerTrust(t, obtained, described)
      PROVE  OfferTyped'
  <2>1. /\ UNCHANGED offerScreen
        /\ OfferGoesOn(t, "validate") \/ OfferRejected(t, Failure("SdkUnexpectedStatusCode"))
    BY <1>7 DEF EvaluateIssuerTrust
  <2> QED BY <2>1, OfferFailures, TypedThunk
<1>8. ASSUME NEW t \in Scans, NEW done \in BOOLEAN, IssuanceEnds(t, done)
      PROVE  OfferTyped'
  <2> DEFINE answer == [status |-> "500", body |-> "malformed"]
             error  == UnexpectedStatus("IssuerResponseError", answer)
  <2>1. CASE done
    <3>1. /\ \A u \in Scans : u # t => offerThunk'[u] = offerThunk[u]
          /\ offerThunk'[t] = [offerThunk[t] EXCEPT !.at = "done"]
          /\ offerSlice' = [offer |-> offerThunk[t].offer, status |-> "done"]
          /\ UNCHANGED offerScreen
      BY <1>0, <1>8, <2>1 DEF IssuanceEnds
    <3>2. offerThunk'[t].error = offerThunk[t].error /\ offerSlice'.status = "done"
      BY <1>0, <3>1 DEF IsThunk
    <3>3. \A u \in Scans : Foreseen(OfferErrors, offerThunk'[u].error)
      BY <3>1, <3>2 DEF OfferTyped
    <3> QED BY <3>1, <3>2, <3>3 DEF OfferTyped, Foreseen, ErrorOK, CodesOf, AsyncStatuses
  <2>2. CASE ~done
    <3>1. /\ answer.status \in ErrorStatuses /\ answer.body \in ErrorReasons
          /\ "IssuerResponseError" \in DOMAIN DefaultCode
      BY DEF ErrorStatuses, ErrorReasons, DefaultCode
    <3>2. OfferRejected(t, error) /\ UNCHANGED offerScreen
      BY <1>8, <2>2 DEF IssuanceEnds
    <3> HIDE DEF answer
    <3>3. Foreseen(OfferErrors, error)
      BY <3>1, UnexpectedStatusOK DEF Foreseen, OfferErrors
    <3> HIDE DEF error
    <3> QED BY <3>2, <3>3, TypedThunk
  <2> QED BY <2>1, <2>2
<1> QED BY <1>1, <1>2, <1>3, <1>4, <1>5, <1>6, <1>7, <1>8 DEF OfferNext

(***************************************************************************)
(* The library.                                                            *)
(***************************************************************************)

\* The invariants of the machines that the types rest on.
LibraryInvariant ==
  /\ FlowTyped
  /\ RelyingPartyInvariant /\ PartyTyped
  /\ ProviderInvariant /\ ProviderTyped
  /\ CatalogueTyped
  /\ OfferInvariant /\ OfferTyped

LEMMA LibraryInitially == LibraryInit => LibraryInvariant
<1> SUFFICES ASSUME LibraryInit PROVE LibraryInvariant
  OBVIOUS
<1>1. FlowTyped
  BY IssuanceFailures DEF LibraryInit, FlowInit, FlowTyped, RequestTyped, FlowSteps, NotIssued
<1>2. RelyingPartyInvariant
  BY DEF LibraryInit, RelyingPartyInit, RelyingPartyInvariant, ResponseToClient, NoResponse
<1>3. PartyTyped
  BY PresentationFailures DEF LibraryInit, RelyingPartyInit, PartyTyped, ConfTyped, PartySteps
<1>4. ProviderInvariant
  BY SilentErrors DEF LibraryInit, WalletProviderInit, ProviderInvariant, InstanceTruth,
                      NoProviderCall, ProviderCodes
<1>5. ProviderTyped
  BY ProviderFailures DEF LibraryInit, WalletProviderInit, ProviderTyped, NoProviderCall
<1>6. CatalogueTyped
  BY CatalogueAssumption DEF LibraryInit, CatalogueInit, CatalogueTyped, AsyncStatuses
<1>7. OfferInvariant
  BY DEF LibraryInit, OfferInit, OfferInvariant, OfferTypes, SliceHonours, ThunkHonours, Resolved,
         NotScanned, EmptySlice, IsThunk
<1>8. OfferTyped
  <2>1. /\ offerScreen = "closed" /\ offerSlice.status = "initial"
        /\ \A t \in Scans : offerThunk[t].error = NoError
    BY DEF LibraryInit, OfferInit, EmptySlice, NotScanned
  <2> QED BY <2>1, OfferFailures DEF OfferTyped, AsyncStatuses
<1> QED BY <1>1, <1>2, <1>3, <1>4, <1>5, <1>6, <1>7, <1>8 DEF LibraryInvariant

\* A session is of one machine, and leaves the others alone.
LEMMA LibraryInductive ==
  ASSUME LibraryInvariant, [LibraryNext]_libraryVars
  PROVE  LibraryInvariant'
<1> USE DEF LibraryInvariant
<1>1. Issues \/ Presents \/ Provides \/ Catalogues \/ Offered \/ UNCHANGED libraryVars
  BY DEF LibraryNext
<1>2. FlowTyped'
  <2>1. CASE UNCHANGED flowVars
    BY <2>1 DEF flowVars, FlowTyped, RequestTyped, Foreseen, ErrorOK, CodesOf
  <2> QED BY <1>1, <2>1, FlowTypedStep
          DEF Issues, Presents, Provides, Catalogues, Offered, libraryVars
<1>3. RelyingPartyInvariant' /\ PartyTyped'
  <2>1. CASE UNCHANGED rpVars
    BY <2>1 DEF rpVars, RelyingPartyInvariant, ResponseToClient, Tied, PartyTyped, ConfTyped,
                Foreseen, ErrorOK, CodesOf
  <2> QED BY <1>1, <2>1, RelyingPartyStep, PartyTypedStep
          DEF Issues, Presents, Provides, Catalogues, Offered, libraryVars
<1>4. ProviderInvariant' /\ ProviderTyped'
  <2>1. CASE UNCHANGED wpVars
    BY <2>1 DEF wpVars, ProviderInvariant, InstanceTruth, ProviderTyped, Foreseen, ErrorOK, CodesOf
  <2> QED BY <1>1, <2>1, ProviderStep, ProviderTypedStep
          DEF Issues, Presents, Provides, Catalogues, Offered, libraryVars
<1>5. CatalogueTyped'
  <2>1. CASE UNCHANGED catVars
    BY <2>1 DEF catVars, CatalogueTyped
  <2> QED BY <1>1, <2>1, CatalogueTypedStep
          DEF Issues, Presents, Provides, Catalogues, Offered, libraryVars
<1>6. OfferInvariant' /\ OfferTyped'
  <2>1. CASE UNCHANGED offerVars
    BY <2>1 DEF offerVars, OfferInvariant, OfferTypes, SliceHonours, ThunkHonours, OfferTyped,
                Foreseen, ErrorOK, CodesOf
  <2> QED BY <1>1, <2>1, OfferStep, OfferTypedStep
          DEF Issues, Presents, Provides, Catalogues, Offered, libraryVars
<1> QED BY <1>2, <1>3, <1>4, <1>5, <1>6

\* Whatever issuers, relying parties, the provider and the registries answer,
\* each machine is where its type says, and ends with no error but those that
\* its callers foresee, under a code of the class of the error.
THEOREM LibraryTypes == LibrarySpec => []LibraryTypeOK
<1>1. LibraryInvariant /\ [LibraryNext]_libraryVars => LibraryInvariant'
  BY LibraryInductive
<1>2. LibraryInvariant => LibraryTypeOK
  BY DEF LibraryInvariant, LibraryTypeOK, FlowTyped, RequestTyped, FlowSteps, PartyTyped,
         ConfTyped, PartySteps, ProviderInvariant, ProviderTyped, CatalogueTyped, OfferTyped
<1> QED BY <1>1, <1>2, LibraryInitially, PTL DEF LibrarySpec
=============================================================================
