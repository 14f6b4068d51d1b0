------------------------------ MODULE CodeFlow ------------------------------
(***************************************************************************)
(* The calls of the library that make up one issuance, in the order their  *)
(* documentation prescribes and in both versions of the specification:     *)
(* pushed authorization request, authorization by the redirect of a        *)
(* browser (PID) or by the presentation of a PID (any other credential),   *)
(* token, nonce, credential or batch, verification.  The caller chooses    *)
(* the arguments, the issuer its answers; a call that throws ends the      *)
(* flow.                                                                   *)
(***************************************************************************)
EXTENDS Documents, FiniteSets

CONSTANTS Versions,
          ConfigIds, PidIds, \* the ids the issuer supports, those of a PID
          Includes,          \* pairs of ids, of which the first one includes the second
          FormatOf,          \* the format of each id of the issuer
          ConfiguredClaims,  \* by format: the sets of claims a configuration may have
          Requests,          \* sets of ids
          Identifiers,       \* of the datasets that an issuer holds for a configuration
          Grants,            \* sets of authorization details: configuration, identifiers
          Statuses, Queries, \* of an answer, of a redirect
          IssuerKeys,
          IssuedDocuments    \* by format: one that is not of the format does not decode

\* A configuration has one claim for a path, and the path of a node is a
\* sequence that is not empty.
ASSUME DocumentAssumption ==
  /\ \A claims \in ConfiguredClaims["dc+sd-jwt"] : \A c, d \in claims : c.path = d.path => c = d
  /\ \A doc \in IssuedDocuments["dc+sd-jwt"] : \A p \in DOMAIN doc.nodes :
       p # <<>> /\ p \in Seq({p[i] : i \in DOMAIN p})

VARIABLES step,      \* the next call
          call,      \* what the caller asked for
          object,    \* who signed the request object, or "none"
          token,     \* the authorization details of the access token
          issued,    \* what is asked for: configuration, identifier, batch; its claims
          parsed,    \* the result of the verification
          document,  \* the document that was verified, or NoDocument
          failure,   \* the error thrown, or NoError
          answered   \* the last answer: endpoint and status

flowVars == <<step, call, object, token, issued, parsed, document, failure, answered>>

NoCall == [version |-> "none", ids |-> {}, mode |-> "none", proof |-> "none"]
NoDocument == [signer |-> "none", holder |-> "none"]
NotIssued == [id |-> "none", identifier |-> "none", batch |-> FALSE, claims |-> {}]

FlowInit ==
  /\ step = "idle" /\ call = NoCall /\ object = "none" /\ token = {}
  /\ issued = NotIssued /\ parsed = Rejected(NoError) /\ document = NoDocument
  /\ failure = NoError /\ answered = [endpoint |-> "none", status |-> "none"]

(* How a call ends *)

EndsWith(error, next) ==
  /\ failure' = error
  /\ step' = IF error = NoError THEN next ELSE "failed"

Answers == [status : Statuses, body : {"valid", "malformed"}]
Received(endpoint, answer) ==
  answered' = [endpoint |-> endpoint, status |-> answer.status]

\* What an answer of the issuer throws: a status that is not the expected
\* one, in the class of the call or of the SDK, or a body that does not parse.
AnswerError(expected, class, invalid, answer) ==
  LET error == HasStatusOrThrow(expected, class, answer)
  IN  IF error = NoError /\ answer.body = "malformed" THEN Failure(invalid) ELSE error

SdkError(expected, answer) ==
  AnswerError(expected, "SdkUnexpectedStatusCode", "SdkValidationError", answer)
IssuerError(expected, answer) ==
  AnswerError(expected, "IssuerResponseError", "ValidationFailed", answer)

(* 02: the request *)

\* The id asked for only has to be part of an id of the issuer.
SelectCredentialDefinition(id) ==
  IF \E e \in ConfigIds : <<e, id>> \in Includes
  THEN NoError ELSE Failure("IoWalletError")

ResponseModes(ids) == {IF id \in PidIds THEN "query" ELSE "form_post.jwt" : id \in ids}

SelectResponseMode(ids, supported) ==
  IF Cardinality(ResponseModes(ids)) # 1 \/ ~ ResponseModes(ids) \subseteq supported
  THEN Failure("IoWalletError") ELSE NoError

\* The error of the first check that fails; 1.3.3 has no response mode.
RequestError(version, ids, supported) ==
  IF \/ version = "1.0.0" /\ SelectResponseMode(ids, supported) # NoError
     \/ \E id \in ids : SelectCredentialDefinition(id) # NoError
  THEN Failure("IoWalletError") ELSE NoError

StartUserAuthorization(version, ids, proof, supported) ==
  /\ step = "idle"
  /\ EndsWith(RequestError(version, ids, supported), "par")
  /\ call' = [version |-> version, ids |-> ids, proof |-> proof,
              mode |-> IF version = "1.0.0" /\ Cardinality(ResponseModes(ids)) = 1
                       THEN CHOOSE m \in ResponseModes(ids) : TRUE ELSE "undefined"]
  /\ UNCHANGED <<object, token, issued, parsed, document, answered>>

ParErrorV1_0(answer) == AnswerError("201", "IssuerResponseError", "ZodError", answer)
ParErrorV1_3(answer) == SdkError("201", answer)

MakeParRequest(answer) ==
  /\ step = "par"
  /\ EndsWith(IF call.version = "1.0.0" THEN ParErrorV1_0(answer) ELSE ParErrorV1_3(answer),
              "authorize")
  /\ Received("par", answer)
  /\ UNCHANGED <<call, object, token, issued, parsed, document>>

(* 03: the authorization *)

\* A PID is authorized in a browser, at the URL of the pushed request.
BuildAuthorizationUrl ==
  /\ step = "authorize"
  /\ call.ids \cap PidIds # {}
  /\ step' = "redirect"
  /\ UNCHANGED <<call, object, token, issued, parsed, document, failure, answered>>

\* A result needs a code and a state, an error its name; a result goes first.
ParseAuthorizationResponse(query) ==
  IF {"code", "state"} \subseteq query THEN NoError
  ELSE Failure(IF "error" \in query THEN "AuthorizationIdpError" ELSE "AuthorizationError")

CompletePidUserAuthorizationWithQueryMode(query) ==
  /\ step = "redirect" /\ call.proof # "mrtd-pop"
  /\ EndsWith(ParseAuthorizationResponse(query), "token")
  /\ UNCHANGED <<call, object, token, issued, parsed, document, answered>>

ChallengeV1_0(query) ==
  IF "challenge_info" \in query THEN NoError
  ELSE Failure(IF "error" \in query THEN "AuthorizationIdpError" ELSE "AuthorizationError")

\* The SDK parses the challenge: whatever it throws is an AuthorizationError.
ChallengeV1_3(query) ==
  IF "challenge_info" \in query THEN NoError ELSE Failure("AuthorizationError")

\* The challenge of an MRTD PoP: once it is answered the browser redirects
\* again, with the code.
ContinueWithMRTDPoPChallenge(query) ==
  /\ step = "redirect" /\ call.proof = "mrtd-pop"
  /\ EndsWith(IF call.version = "1.0.0" THEN ChallengeV1_0(query) ELSE ChallengeV1_3(query),
              "redirect")
  /\ call' = [call EXCEPT !.proof = "none"]
  /\ UNCHANGED <<object, token, issued, parsed, document, answered>>

\* The request object of the issuer is decoded in 1.0.0, verified with the
\* keys of the issuer in 1.3.3.
ObjectErrorV1_0(answer) == IssuerError("200", answer)
ObjectErrorV1_3(answer, signer) ==
  LET error == AnswerError("200", "IssuerResponseError", "SdkValidationError", answer)
  IN  IF error = NoError /\ signer \notin IssuerKeys THEN Failure("Oauth2JwtVerifyError") ELSE error

GetRequestedCredentialToBePresented(answer, signer) ==
  /\ step = "authorize"
  /\ \E id \in call.ids : id \notin PidIds
  /\ EndsWith(IF call.version = "1.0.0" THEN ObjectErrorV1_0(answer)
                                        ELSE ObjectErrorV1_3(answer, signer), "present")
  /\ object' = IF failure' = NoError THEN signer ELSE object
  /\ Received("object", answer)
  /\ UNCHANGED <<call, token, issued, parsed, document>>

\* 1.0.0 posts the response, then gets the form at the redirect_uri answered.
PostResponseV1_0(answer) ==
  /\ step = "present" /\ call.version = "1.0.0"
  /\ EndsWith(IssuerError("200", answer), "form")
  /\ Received("response", answer)
  /\ UNCHANGED <<call, object, token, issued, parsed, document>>

\* The form holds a JWT with the result, which is decoded.
GetJwtFromFormPost(answer, query) ==
  /\ step = "form"
  /\ LET error == IssuerError("200", answer)
     IN  EndsWith(IF error = NoError THEN ParseAuthorizationResponse(query) ELSE error, "token")
  /\ Received("form", answer)
  /\ UNCHANGED <<call, object, token, issued, parsed, document>>

\* 1.3.3 in form_post.jwt mode: the answer is verified with the first
\* signature key of the issuer.
CompleteWithFormPostJwtMode(answer, signer) ==
  /\ step = "present" /\ call.version = "1.3.3"
  /\ LET error == SdkError("200", answer)
     IN  EndsWith(IF IssuerKeys = {} THEN Failure("IoWalletError")
                  ELSE IF error # NoError THEN error
                  ELSE IF signer \notin IssuerKeys THEN Failure("Oauth2JwtVerifyError")
                  ELSE NoError, "token")
  /\ IF IssuerKeys = {} THEN UNCHANGED answered ELSE Received("response", answer)
  /\ UNCHANGED <<call, object, token, issued, parsed, document>>

\* 1.3.3 in query mode: the redirects from the redirect_uri answered, none
\* of which is an endpoint of the protocol, lead to the one of the client.
CompleteEaaUserAuthorizationWithQueryMode(answer, redirectUri, final, query) ==
  /\ step = "present" /\ call.version = "1.3.3"
  /\ LET error == SdkError("200", answer)
     IN  EndsWith(IF error # NoError THEN error
                  ELSE IF ~redirectUri \/ final # "client" THEN Failure("AuthorizationError")
                  ELSE ParseAuthorizationResponse(query), "token")
  /\ Received("response", answer)
  /\ UNCHANGED <<call, object, token, issued, parsed, document>>

(* 04: the access token; what no later call reads is dropped *)

TokenErrorV1_0(answer) == IssuerError("200", answer)

\* 1.3.3 refuses a token without authorization_details.
TokenErrorV1_3(answer, details) ==
  LET error == SdkError("200", answer)
  IN  IF error = NoError /\ details = {} THEN Failure("IoWalletError") ELSE error

AuthorizeAccess(answer, details) ==
  /\ step = "token"
  /\ EndsWith(IF call.version = "1.0.0" THEN TokenErrorV1_0(answer)
                                        ELSE TokenErrorV1_3(answer, details), "obtain")
  /\ token' = IF failure' = NoError THEN details ELSE token
  /\ call' = [call EXCEPT !.ids = {}, !.mode = "none", !.proof = "none"]
  /\ object' = "none"
  /\ Received("token", answer)
  /\ UNCHANGED <<issued, parsed, document>>

(* 05: the credential *)

\* Faulty variant: any access token will do.
ContainsAnyDefinition(id, identifier) == token # {}

\* A caller may leave the identifier out.
ContainsCredentialDefinition(id, identifier) ==
  \E d \in token : d.configuration = id /\ identifier \in d.identifiers \cup {"none"}

\* What forbids the request.  A batch is one of 1.3.3 alone and is not looked
\* for in the token, a single credential is; 1.3.3 needs an attestation of
\* the wallet unit for both.
RequestForbidden(id, identifier, batch, attested) ==
  IF batch /\ call.version = "1.0.0" THEN Failure("UnimplementedFeatureError")
  ELSE IF \/ call.version = "1.3.3" /\ ~attested
          \/ ~batch /\ ~ContainsCredentialDefinition(id, identifier)
       THEN Failure("ValidationFailed")
  ELSE NoError

\* In 1.0.0 the nonce is got, and its proof signed, before the definition is
\* looked for in the token, in 1.3.3 after.  The error of the nonce endpoint
\* has no party in both.  With a proof by each key a batch is one request.
CreateNonceProof(id, identifier, batch, attested, answer) ==
  /\ step = "obtain"
  /\ batch => identifier # "none"
  /\ LET error     == AnswerError("200", "UnexpectedStatusCodeError", "ZodError", answer)
         forbidden == RequestForbidden(id, identifier, batch, attested)
         asked     == IF call.version = "1.0.0" THEN ~batch ELSE forbidden = NoError
     IN  /\ EndsWith(IF asked /\ error # NoError THEN error ELSE forbidden, "credential")
         /\ IF asked THEN Received("nonce", answer) ELSE UNCHANGED answered
  /\ issued' = [issued EXCEPT !.id = id, !.identifier = identifier, !.batch = batch]
  /\ UNCHANGED <<call, object, token, parsed, document>>

\* 200 alone in 1.0.0, where 201 says that the credential comes later, and an
\* answer that does not parse is an error of the library.
CredentialErrorV1_0(answer) ==
  LET error == HandleObtainCredentialErrorV1_0(
                 HasStatusOrThrow("200", "UnexpectedStatusCodeError", answer))
  IN  IF error = NoError /\ answer.body = "malformed" THEN Failure("ValidationFailed") ELSE error

\* The SDK parses the answers of 200 and of 202, and throws its own errors:
\* the handler maps the statuses and rethrows the others.  202 says that the
\* credential comes later.
CredentialErrorV1_3(answer) ==
  IF answer.status \notin {"200", "202"}
  THEN HandleObtainCredentialErrorV1_3(
         HasStatusOrThrow("200", "SdkUnexpectedStatusCode", answer))
  ELSE IF answer.body = "malformed" THEN Failure("SdkValidationError")
  ELSE IF answer.status = "202" THEN Failure("IoWalletError")
  ELSE NoError

CredentialError(answer) ==
  IF call.version = "1.0.0" THEN CredentialErrorV1_0(answer) ELSE CredentialErrorV1_3(answer)

\* What the call finds wrong with an answer that parses: the credentials, one
\* for each key of a batch and otherwise one at least, then the format, which
\* is looked up only now: without one the credential is lost.  1.3.3 foresees
\* neither, but for the batch.
CredentialMissing(complete) ==
  IF ~complete THEN Failure(IF issued.batch \/ call.version = "1.0.0" THEN "IoWalletError"
                                                                    ELSE "TypeError")
  ELSE IF issued.id \notin ConfigIds
       THEN Failure(IF call.version = "1.0.0" THEN "IoWalletError" ELSE "TypeError")
  ELSE NoError

ObtainCredential(answer, complete) ==
  /\ step = "credential"
  /\ LET error == CredentialError(answer)
     IN  EndsWith(IF error = NoError THEN CredentialMissing(complete) ELSE error, "verify")
  /\ Received("credential", answer)
  /\ UNCHANGED <<call, object, token, issued, parsed, document>>

(* 06: the verification, of the credential or of any one of a batch *)

VerifyAndParseCredential(doc, claims, context, root) ==
  /\ step = "verify"
  /\ LET config == [format |-> FormatOf[issued.id], claims |-> claims]
         result == IF call.version = "1.0.0"
                   THEN VerifyAndParseCredentialV1_0(config, IssuerKeys, doc, context, root)
                   ELSE VerifyAndParseCredentialV1_3(config, IssuerKeys, doc, context, root)
     IN  /\ EndsWith(result.error, "done")
         /\ parsed' = result
  /\ document' = doc
  /\ issued' = [issued EXCEPT !.claims = claims]
  /\ UNCHANGED <<call, object, token, answered>>

Contexts ==
  [ignoreMissing : BOOLEAN, includeUndefined : BOOLEAN,
   validateChain : {"unset", "no"}, holderKey : {"holder"}]

FlowNext ==
  \/ \E v \in Versions, ids \in Requests, proof \in {"none", "mrtd-pop"},
        supported \in SUBSET {"query", "form_post.jwt"} :
       StartUserAuthorization(v, ids, proof, supported)
  \/ BuildAuthorizationUrl
  \/ \E query \in Queries :
       \/ CompletePidUserAuthorizationWithQueryMode(query)
       \/ ContinueWithMRTDPoPChallenge(query)
  \/ \E answer \in Answers :
       \/ MakeParRequest(answer)
       \/ PostResponseV1_0(answer)
       \/ \E complete \in BOOLEAN : ObtainCredential(answer, complete)
       \/ \E id \in UNION Requests, identifier \in Identifiers \cup {"none"},
            batch \in BOOLEAN, attested \in BOOLEAN :
            CreateNonceProof(id, identifier, batch, attested, answer)
       \/ \E details \in Grants : AuthorizeAccess(answer, details)
       \/ \E query \in Queries : GetJwtFromFormPost(answer, query)
       \/ \E signer \in IssuerKeys \cup {"other"} :
            \/ GetRequestedCredentialToBePresented(answer, signer)
            \/ CompleteWithFormPostJwtMode(answer, signer)
       \/ \E redirectUri \in BOOLEAN, final \in {"none", "client", "other"}, query \in Queries :
            CompleteEaaUserAuthorizationWithQueryMode(answer, redirectUri, final, query)
  \/ /\ step = "verify"
     /\ LET format == FormatOf[issued.id]
        IN  \E doc \in IssuedDocuments[format], claims \in ConfiguredClaims[format],
               context \in Contexts, root \in {"none", "root"} :
              VerifyAndParseCredential(doc, claims, context, root)
-----------------------------------------------------------------------------
(* Properties *)

\* The error of a flow that failed has the status of the last answer, if any.
\* What the credential endpoint says is told apart as each version tells it: an
\* invalid credential in both, a deferred one by a code in 1.0.0 (201) and by
\* an error without a code in 1.3.3 (202), any other status as a failed
\* request; and no other endpoint is taken for it.
FailureExplained ==
  LET told(statuses) == step = "failed" /\ answered.endpoint = "credential"
                        /\ answered.status \in statuses
      first          == call.version = "1.0.0"
  IN  /\ failure.status # "none" => failure.status = answered.status
      /\ step = "failed" /\ answered.status \in Statuses \ {"200", "201", "202"}
           => failure.status = answered.status
      /\ failure.code = "CredentialInvalidStatus" <=> told({"403", "404"})
      /\ failure.code = "CredentialIssuingNotSynchronous" <=> first /\ told({"201"})
      /\ failure.code = "CredentialRequestFailed" <=>
           told(Statuses \ ({"200", "403", "404"} \cup {IF first THEN "201" ELSE "202"}))
      /\ ~first /\ told({"202"}) => failure.class \in {"IoWalletError", "SdkValidationError"}

\* A credential that a flow ends with is of a configuration of the issuer, is
\* bound to the key of its context and signed by the issuer, and an SD-JWT has
\* not expired.  The token lists its configuration, with the identifier asked
\* for; of a batch nothing is said here, as its call never looks at the token.
CredentialAuthorised ==
  step = "done" =>
    /\ issued.id \in ConfigIds
    /\ ~issued.batch => \E d \in token :
         d.configuration = issued.id /\ issued.identifier \in d.identifiers \cup {"none"}
    /\ document.holder = "holder"
    /\ IF FormatOf[issued.id] = "mso_mdoc"
       THEN document.signer = "leaf" /\ document.x5c = "root"
       ELSE document.signer \in IssuerKeys /\ ~document.expired /\ document.exp

\* Every attribute of an SD-JWT to which a claim of the configuration leads is
\* shown under the texts of that claim, however deep it is and whatever else
\* the configuration declares on the way.
ClaimsShown ==
  step = "done" /\ FormatOf[issued.id] = "dc+sd-jwt" =>
    \A c \in issued.claims, p \in DOMAIN document.nodes :
      c.display # {} /\ Pattern(p) = c.path =>
        p \in DOMAIN parsed.claims /\ (IsItem(p) \/ parsed.claims[p] = c.display)
=============================================================================
