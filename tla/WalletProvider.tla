--------------------------- MODULE WalletProvider ---------------------------
(***************************************************************************)
(* The calls of the library to the wallet provider: creation of a wallet   *)
(* instance, its revocation and status, and the attestation of 1.0.0.  An  *)
(* instance is named by the tag of its hardware key; what the native       *)
(* integrity service answers depends on the platform, and what the         *)
(* provider answers on what it knows of the instance.                      *)
(***************************************************************************)
EXTENDS Errors

CONSTANTS HardwareTags

VARIABLES wpStep,       \* the next thing a call waits for
          wpCall,       \* operation and tag of the call
          platform,     \* of the device
          tokenReady,   \* Android: the integrity token is prepared
          hardwareKeys, \* the tags with a key in the secure hardware
          known,        \* provider: "absent", "valid" or "revoked", by tag
          wpFailure, wpAnswered

wpVars == <<wpStep, wpCall, platform, tokenReady, hardwareKeys, known, wpFailure, wpAnswered>>

NoProviderCall == [op |-> "none", tag |-> "none"]

WalletProviderInit ==
  /\ wpStep = "idle" /\ wpCall = NoProviderCall
  /\ platform \in {"android", "ios", "web"}
  /\ tokenReady = FALSE /\ hardwareKeys = {}
  /\ known = [t \in HardwareTags |-> "absent"]
  /\ wpFailure = NoError /\ wpAnswered = "none"

ProviderCallEnds(error, next) ==
  /\ wpFailure' = error
  /\ wpStep' = IF error = NoError THEN next ELSE "failed"

(* The integrity service of the device *)

UnsupportedPlatform == Failure("Error")

\* A service that is not available is not an error here, and no caller looks.
EnsureIntegrityServiceIsReady(available, projectNumber) ==
  /\ wpStep = "idle"
  /\ CASE platform = "web" -> ProviderCallEnds(UnsupportedPlatform, "idle")
       [] platform = "android" /\ available /\ ~projectNumber ->
            ProviderCallEnds(Failure("Error"), "idle")
       [] OTHER -> ProviderCallEnds(NoError, "idle")
  /\ tokenReady' = (tokenReady \/ (platform = "android" /\ available /\ projectNumber))
  /\ UNCHANGED <<wpCall, platform, hardwareKeys, known, wpAnswered>>

\* On iOS the key is generated with its tag, on Android with its attestation.
GenerateIntegrityHardwareKeyTag(tag) ==
  /\ wpStep = "idle"
  /\ tag \notin hardwareKeys /\ known[tag] = "absent"
  /\ IF platform = "web"
     THEN ProviderCallEnds(UnsupportedPlatform, "nonce") /\ UNCHANGED <<wpCall, hardwareKeys>>
     ELSE /\ ProviderCallEnds(NoError, "nonce")
          /\ wpCall' = [op |-> "create", tag |-> tag]
          /\ hardwareKeys' = IF platform = "ios" THEN hardwareKeys \cup {tag} ELSE hardwareKeys
  /\ UNCHANGED <<platform, tokenReady, known, wpAnswered>>

\* getHardwareSignatureWithAuthData: on Android the authenticator data are an
\* integrity token, which has to be prepared.
GetHardwareSignature ==
  /\ wpStep = "sign"
  /\ ProviderCallEnds(IF wpCall.tag \in hardwareKeys /\ (platform = "android" => tokenReady)
                      THEN NoError ELSE Failure("IntegrityError"), "attest")
  /\ UNCHANGED <<wpCall, platform, tokenReady, hardwareKeys, known, wpAnswered>>

GetIntegrityAttestation(attested) ==
  /\ wpStep = "integrity"
  /\ ProviderCallEnds(IF attested THEN NoError ELSE Failure("IntegrityError"), "create")
  /\ hardwareKeys' = IF attested THEN hardwareKeys \cup {wpCall.tag} ELSE hardwareKeys
  /\ UNCHANGED <<wpCall, platform, tokenReady, known, wpAnswered>>

(* The provider *)

\* Its answer by the operation and by what it knows; a body that is not a
\* problem becomes one.  It may fail at any time.
ProviderStatuses(op, state) ==
  {"500"} \cup
  CASE op = "nonce"  -> {"200"}
    [] op = "create" -> {"201", "409"}
    [] op = "attest" -> (CASE state = "absent"  -> {"404"}
                           [] state = "revoked" -> {"403"}
                           [] OTHER             -> {"200", "409"})
    [] OTHER         -> IF state = "absent" THEN {"404"} ELSE {"200"}

\* "none": the network fails before the answer arrives, with an error of
\* its own.
ProviderAnswers(op) ==
  [status : ProviderStatuses(op, known[wpCall.tag]) \cup {"none"}, body : {"problem", "other"}]

AnswerOf(answer) ==
  IF answer.status = "none" THEN Failure("TypeError")
  ELSE ValidateResponse({"200", "201"}, answer)

\* What the provider does: at a lost answer it may have done it.
ProviderDoes(tag, status, state) ==
  \/ status \in {"200", "201", "none"} /\ known' = [known EXCEPT ![tag] = state]
  \/ status \notin {"200", "201"} /\ UNCHANGED known

(* The calls *)

GetAttestationV1_0(tag) ==
  /\ wpStep = "idle"
  /\ known[tag] # "absent" \/ tag \in hardwareKeys
  /\ wpStep' = "nonce"
  /\ wpCall' = [op |-> "attest", tag |-> tag]
  /\ UNCHANGED <<platform, tokenReady, hardwareKeys, known, wpFailure, wpAnswered>>

GetNonce ==
  /\ wpStep = "nonce"
  /\ \E answer \in ProviderAnswers("nonce") :
       /\ ProviderCallEnds(AnswerOf(answer),
                           IF wpCall.op = "create" THEN "integrity" ELSE "sign")
       /\ wpAnswered' = answer.status
  /\ UNCHANGED <<wpCall, platform, tokenReady, hardwareKeys, known>>

CreateWalletInstance ==
  /\ wpStep = "create"
  /\ \E answer \in ProviderAnswers("create") :
       /\ ProviderCallEnds(HandleCreateWalletInstanceError(AnswerOf(answer)), "idle")
       /\ ProviderDoes(wpCall.tag, answer.status, "valid")
       /\ wpAnswered' = answer.status
  /\ UNCHANGED <<wpCall, platform, tokenReady, hardwareKeys>>

\* A body that does not parse as attestations is no error of the provider.
RequestAttestationV1_0 ==
  /\ wpStep = "attest"
  /\ \E answer \in ProviderAnswers("attest") :
       /\ ProviderCallEnds(
            IF answer.status = "200" /\ answer.body = "other" THEN Failure("ZodError")
            ELSE HandleAttestationCreationError(AnswerOf(answer)), "attested")
       /\ wpAnswered' = answer.status
  /\ UNCHANGED <<wpCall, platform, tokenReady, hardwareKeys, known>>

RevokeWalletInstance(tag) ==
  /\ wpStep = "idle"
  /\ wpCall' = [op |-> "revoke", tag |-> tag]
  /\ \E status \in ProviderStatuses("revoke", known[tag]) \cup {"none"} :
       /\ ProviderCallEnds(AnswerOf([status |-> status, body |-> "problem"]), "idle")
       /\ IF known[tag] = "absent" THEN UNCHANGED known ELSE ProviderDoes(tag, status, "revoked")
       /\ wpAnswered' = status
  /\ UNCHANGED <<platform, tokenReady, hardwareKeys>>

GetWalletInstanceStatus(tag) ==
  /\ wpStep = "idle"
  /\ wpCall' = [op |-> "status", tag |-> tag]
  /\ \E status \in ProviderStatuses("status", known[tag]) \cup {"none"} :
       /\ ProviderCallEnds(AnswerOf([status |-> status, body |-> "problem"]), "idle")
       /\ wpAnswered' = status
  /\ UNCHANGED <<platform, tokenReady, hardwareKeys, known>>

\* The provider may also revoke an instance on its own.
RevokedByProvider(tag) ==
  /\ known[tag] = "valid"
  /\ known' = [known EXCEPT ![tag] = "revoked"]
  /\ UNCHANGED <<wpStep, wpCall, platform, tokenReady, hardwareKeys, wpFailure, wpAnswered>>

\* A caller goes on after a call that failed or an attestation obtained.
NextCall ==
  /\ wpStep \in {"failed", "attested"}
  /\ wpStep' = "idle" /\ wpCall' = NoProviderCall
  /\ wpFailure' = NoError /\ wpAnswered' = "none"
  /\ UNCHANGED <<platform, tokenReady, hardwareKeys, known>>

WalletProviderNext ==
  \/ \E available, projectNumber \in BOOLEAN :
       EnsureIntegrityServiceIsReady(available, projectNumber)
  \/ \E tag \in HardwareTags :
       \/ GenerateIntegrityHardwareKeyTag(tag)
       \/ GetAttestationV1_0(tag)
       \/ RevokeWalletInstance(tag)
       \/ GetWalletInstanceStatus(tag)
       \/ RevokedByProvider(tag)
  \/ \E attested \in BOOLEAN : GetIntegrityAttestation(attested)
  \/ GetHardwareSignature \/ GetNonce \/ CreateWalletInstance \/ RequestAttestationV1_0
  \/ NextCall
-----------------------------------------------------------------------------
(* Properties *)

\* What a caller is told of its instance is so: an attestation that fails
\* with WalletInstanceRevoked or WalletInstanceNotFound is of an instance the
\* provider revoked or does not know, and of such an instance every answer to
\* an attestation says so; an attestation is of an instance that was registered
\* and whose key is in the hardware.
InstanceTruth ==
  LET state == known[wpCall.tag]
      refused == wpStep = "failed" /\ wpCall.op = "attest" /\ wpAnswered \in {"403", "404"}
  IN  /\ wpFailure.code = "WalletInstanceRevoked"
           <=> refused /\ state = "revoked"
      /\ wpFailure.code = "WalletInstanceNotFound"
           <=> refused /\ state = "absent"
      /\ wpStep = "attested" => state # "absent" /\ wpCall.tag \in hardwareKeys
=============================================================================
