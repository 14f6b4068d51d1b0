------------------------------- MODULE Errors -------------------------------
(***************************************************************************)
(* Errors of the library: the classes, the error a failed HTTP answer      *)
(* becomes, and the builder by which every handler turns an unexpected     *)
(* status into the error of its party.  An error is a record of class,     *)
(* code, HTTP status ("none" without one) and reason; the message of it is *)
(* not modelled.                                                           *)
(***************************************************************************)
IssuerResponseErrorCodes ==
  {"IssuerGenericError", "CredentialInvalidStatus",
   "CredentialIssuingNotSynchronous", "CredentialRequestFailed",
   "MrtdChallengeInitRequestFailed", "StatusAttestationRequestFailed"}

WalletProviderResponseErrorCodes ==
  {"WalletProviderGenericError", "WalletInstanceRevoked",
   "WalletInstanceNotFound", "WalletInstanceIntegrityFailed",
   "WalletInstanceCreationFailed", "WalletInstanceAttestationIssuingFailed"}

RelyingPartyResponseErrorCodes ==
  {"RelyingPartyGenericError", "InvalidAuthorizationResponse"}

\* The code that the constructor of a class falls back to.
DefaultCode ==
  [IssuerResponseError         |-> "IssuerGenericError",
   WalletProviderResponseError |-> "WalletProviderGenericError",
   RelyingPartyResponseError   |-> "RelyingPartyGenericError",
   UnexpectedStatusCodeError   |-> "UnexpectedStatusCode",
   SdkUnexpectedStatusCode     |-> "UnexpectedStatusCode"]

\* The classes of the three parties extend UnexpectedStatusCodeError; the
\* one of the SDK, that has its name, does not.
PartyErrors ==
  {"IssuerResponseError", "WalletProviderResponseError", "RelyingPartyResponseError"}
InstanceOf(error, class) ==
  \/ error.class = class
  \/ class = "UnexpectedStatusCodeError" /\ error.class \in PartyErrors

StatusError(class, code, status, reason) ==
  [class |-> class, code |-> code, status |-> status, reason |-> reason]

NoError == StatusError("none", "none", "none", "none")
Failure(class) == StatusError(class, class, "none", "unspecified")

(* Responses: an answer has a status and a body *)

UnexpectedStatus(class, answer) ==
  StatusError(class, DefaultCode[class], answer.status, answer.body)

\* Any status but the one expected is an error, the successful ones included.
HasStatusOrThrow(expected, class, answer) ==
  IF answer.status = expected THEN NoError ELSE UnexpectedStatus(class, answer)

\* The client of the wallet provider accepts every successful status.
ValidateResponse(ok, answer) ==
  IF answer.status \in ok
  THEN NoError
  ELSE UnexpectedStatus("WalletProviderResponseError",
         [answer EXCEPT !.body = IF @ = "problem" THEN @ ELSE "invalidResponse"])

\* Faulty variant: the fallback comes before the exact case.
BuildFromFallback(class, cases, original) ==
  LET match == IF "*" \in DOMAIN cases THEN {"*"} ELSE DOMAIN cases \cap {original.status}
  IN  IF match = {} THEN original
      ELSE StatusError(class, cases[CHOOSE s \in match : TRUE],
                       original.status, original.reason)

\* Each case has a code; the reason and the status of the original stay.
BuildFrom(class, cases, original) ==
  LET exact == {s \in DOMAIN cases : s = original.status}
      match == IF exact # {} THEN exact ELSE DOMAIN cases \cap {"*"}
  IN  IF match = {}
      THEN original
      ELSE StatusError(class, cases[CHOOSE s \in match : TRUE],
                       original.status, original.reason)

\* A handler maps the errors of one class and rethrows the others as they are.
Handled(source, class, cases, error) ==
  IF InstanceOf(error, source) THEN BuildFrom(class, cases, error) ELSE error

(* The handlers, by the class they catch *)

InvalidStatusCases ==
  [s \in {"403", "404"} |-> "CredentialInvalidStatus"]

HandleObtainCredentialErrorV1_0(error) ==
  Handled("UnexpectedStatusCodeError", "IssuerResponseError",
          [s \in {"201", "403", "404", "*"} |->
             CASE s = "201" -> "CredentialIssuingNotSynchronous"
               [] s = "*"   -> "CredentialRequestFailed"
               [] OTHER     -> InvalidStatusCases[s]], error)

\* Faulty variant: the error of the SDK is not of the class that is caught.
HandleErrorOfLibrary(error) ==
  Handled("UnexpectedStatusCodeError", "IssuerResponseError", InvalidStatusCases, error)

HandleObtainCredentialErrorV1_3(error) ==
  Handled("SdkUnexpectedStatusCode", "IssuerResponseError",
          [s \in {"403", "404", "*"} |->
             IF s = "*" THEN "CredentialRequestFailed" ELSE InvalidStatusCases[s]],
          error)

AuthorizationResponseCases ==
  [s \in {"400", "403", "*"} |->
     IF s = "*" THEN "RelyingPartyGenericError" ELSE "InvalidAuthorizationResponse"]

HandleAuthorizationResponseErrorV1_0(error) ==
  Handled("UnexpectedStatusCodeError", "RelyingPartyResponseError",
          AuthorizationResponseCases, error)

HandleCreateWalletInstanceError(error) ==
  Handled("WalletProviderResponseError", "WalletProviderResponseError",
          [s \in {"409", "*"} |->
             IF s = "*" THEN "WalletInstanceCreationFailed"
                        ELSE "WalletInstanceIntegrityFailed"], error)

\* Faulty variant: the cases are those of the creation.
HandleAttestationAsCreation(error) == HandleCreateWalletInstanceError(error)

HandleAttestationCreationError(error) ==
  Handled("WalletProviderResponseError", "WalletProviderResponseError",
          [s \in {"403", "404", "409", "*"} |->
             CASE s = "403" -> "WalletInstanceRevoked"
               [] s = "404" -> "WalletInstanceNotFound"
               [] s = "409" -> "WalletInstanceIntegrityFailed"
               [] OTHER     -> "WalletInstanceAttestationIssuingFailed"], error)

(* The errors of the SDK, mapped to those of the library *)

\* The reason of these two is the message of the error of the SDK.
ToRelyingPartyResponseError(status) ==
  StatusError("RelyingPartyResponseError", "RelyingPartyGenericError", status, "message")

MapSdkFetchAuthRequestError(error) ==
  IF error.class = "SdkUnexpectedStatusCode"
  THEN ToRelyingPartyResponseError(error.status)
  ELSE error

MapSdkRequestObjectError(error) ==
  [Failure("InvalidRequestObjectError") EXCEPT
     !.reason = IF error.class = "SdkValidationError" THEN "message" ELSE @]

\* Faulty variant: the other errors of the SDK are rethrown.
MapStatusErrorAlone(error) ==
  IF error.class = "SdkUnexpectedStatusCode"
  THEN BuildFrom("RelyingPartyResponseError", AuthorizationResponseCases, error)
  ELSE error

\* A response that could not be made or sent has no status, and gets one.
MapSdkAuthorizationResponseError(error) ==
  CASE error.class = "SdkUnexpectedStatusCode" ->
         BuildFrom("RelyingPartyResponseError", AuthorizationResponseCases, error)
    [] error.class \in {"SdkCreateAuthorizationResponseError",
                        "SdkFetchAuthorizationResponseError"} ->
         ToRelyingPartyResponseError(IF error.status = "none" THEN "400" ELSE error.status)
    [] OTHER -> error

\* withMappedErrors: one class is mapped, every other error passes through.
WithMappedErrors(error, source, mapped) ==
  IF InstanceOf(error, source) THEN mapped ELSE error

(* What a caller asks of an error *)

IsErrorOf(class, code, error) ==
  InstanceOf(error, class) /\ (code = "none" \/ error.code = code)
=============================================================================
