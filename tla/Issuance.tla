------------------------------ MODULE Issuance ------------------------------
(***************************************************************************)
(* The issuance thunks of the app, over the library's issuance calls.      *)
(* A flow is one dispatch: an EAA flow obtains a credential of a requested *)
(* type by presenting the PID, a PID flow obtains the PID in two thunks    *)
(* with the user's login in between.  A flow is suspended at pc[f], and    *)
(* one action is what runs until the next await whose order against the    *)
(* other flows can matter: the store and the keychain are shared.          *)
(***************************************************************************)
EXTENDS WalletInstance

CONSTANTS
  PidFlows,           \* the flows that request the PID, the others EAAs
  EaaConfigs,         \* credential configurations of the EAA provider
  PidConfig,          \* the configuration of the PID
  AuthMethods,        \* ways to log in for the PID
  DefaultMethod,      \* the method the reducer assumes without flow params
  IssuerSubstitutes,  \* may the token grant another EAA than requested?
  WuaSupported,       \* wallet unit attestation and batches: 1.3.3, not 1.0.0
  NoCredential,
  NoConfig,
  NoFlow

ASSUME IssuanceAssumption ==
  /\ PidFlows \subseteq Flows
  /\ DefaultMethod \in AuthMethods
  /\ AuthMethods \cap EaaConfigs = {}
  /\ PidConfig \notin EaaConfigs
  /\ IssuerSubstitutes \in BOOLEAN
  /\ WuaSupported \in BOOLEAN
  /\ NoFlow \notin Flows
  /\ NoConfig \notin EaaConfigs \cup {PidConfig}
  /\ NoCredential \notin [tag : CredentialTags, key : Key]

Configs    == EaaConfigs \cup {PidConfig}
Credential == [tag : CredentialTags, key : Key]

\* What a flow asks for, and under which the screens follow its progress.
Slots == EaaConfigs \cup AuthMethods
SlotsOf(f) == IF f \in PidFlows THEN AuthMethods ELSE EaaConfigs

VARIABLES
  pc,           \* where each flow is suspended
  requested,    \* what each flow was asked for
  attestation,  \* the attestation each flow read from the store
  params,       \* whose PKCE verifier and attestation the flow uses
  dpopKey,      \* the key the flow's access token is bound to
  granted,      \* the configuration the access token authorises
  offered,      \* the key the first credential of the answer is bound to
  issued,       \* issuers: keys they have bound a credential to
  credentials,  \* store: one EAA per configuration
  pid,          \* store: the PID
  flowParams,   \* store: the PID flow whose parameters it keeps
  status        \* store: asyncStatus of each slot

flowVars  == <<pc, requested, attestation, params, dpopKey, granted, offered>>
storeVars == <<credentials, pid, flowParams, status>>

Waiting == {"attest", "authorize", "webview", "delete", "generate", "token",
            "keys", "obtain", "verify"}

NoCredentials == [c \in EaaConfigs |-> NoCredential]
NoStatus == [s \in Slots |-> "initial"]

IssuanceTypeOK ==
  /\ pc \in [Flows -> Waiting \cup {"idle", "done", "failed"}]
  /\ requested \in [Flows -> Slots \cup {NoConfig}]
  /\ attestation \in [Flows -> Attestation \cup {NoWia}]
  /\ params \in [Flows -> Flows \cup {NoFlow}]
  /\ dpopKey \in [Flows -> Key \cup {NoKey}]
  /\ granted \in [Flows -> Configs \cup {NoConfig}]
  /\ offered \in [Flows -> Key \cup {NoKey}]
  /\ issued \subseteq Key
  /\ credentials \in [EaaConfigs -> Credential \cup {NoCredential}]
  /\ pid \in Credential \cup {NoCredential}
  /\ flowParams \in PidFlows \cup {NoFlow}
  /\ status \in [Slots -> {"initial", "loading", "done", "error"}]

\* The PID of a wallet that was provisioned before.
PastTag == <<Past, 1>>
PastPid == [tag |-> PastTag, key |-> <<PastTag, 1>>]

\* A blank wallet; a provisioned one may already hold a PID and its key.
IssuanceInit ==
  /\ pid \in IF instance = NoInstance THEN {NoCredential}
                                     ELSE {NoCredential, PastPid}
  /\ keychain = [t \in Tags |-> IF pid # NoCredential /\ t = PastTag
                                THEN <<PastTag, 1>> ELSE NoKey]
  /\ generation = [t \in Tags |-> IF keychain[t] = NoKey THEN 0 ELSE 1]
  /\ issued = IF pid = NoCredential THEN {} ELSE {pid.key}
  /\ pc = [f \in Flows |-> "idle"]
  /\ requested = [f \in Flows |-> NoConfig]
  /\ attestation = [f \in Flows |-> NoWia]
  /\ params = [f \in Flows |-> NoFlow]
  /\ dpopKey = [f \in Flows |-> NoKey]
  /\ granted = [f \in Flows |-> NoConfig]
  /\ offered = [f \in Flows |-> NoKey]
  /\ credentials = NoCredentials
  /\ flowParams = NoFlow
  /\ status = NoStatus
-----------------------------------------------------------------------------
(* Rejection *)

\* The method a PID reducer attributes an outcome to: that of the flow
\* params in the store, whichever flow wrote them.
ParamsMethod ==
  IF flowParams = NoFlow THEN DefaultMethod ELSE requested[flowParams]

\* The slot in which the rejection of f is reported.
RejectedSlot(f) ==
  IF f \in PidFlows /\ pc[f] # "authorize" THEN ParamsMethod ELSE requested[f]

\* What the thunk of f holds is gone when it settles.
DropLocals(f) ==
  /\ dpopKey' = [dpopKey EXCEPT ![f] = NoKey]
  /\ granted' = [granted EXCEPT ![f] = NoConfig]
  /\ offered' = [offered EXCEPT ![f] = NoKey]

\* A rejected thunk.  A PID flow also drops the flow params.
Reject(f) ==
  /\ pc' = [pc EXCEPT ![f] = "failed"]
  /\ status' = [status EXCEPT ![RejectedSlot(f)] = "error"]
  /\ flowParams' = IF f \in PidFlows THEN NoFlow ELSE flowParams
  /\ DropLocals(f)
  /\ UNCHANGED <<requested, attestation, params, credentials, pid>>
-----------------------------------------------------------------------------
(* From the tap to the authorization code *)

\* Dispatching a thunk marks its slot.
Pending(slot) == [status EXCEPT ![slot] = "loading"]

\* What a thunk does first, or once its attestation has come: it reads the
\* store, whose slots show `shown`, and a PID flow empties the credential slice.
ReadStore(f, slot, shown) ==
  IF wia # NoWia /\ (f \in PidFlows \/ pid # NoCredential)
  THEN /\ pc' = [pc EXCEPT ![f] = "authorize"]
       /\ attestation' = [attestation EXCEPT ![f] = wia]
       /\ credentials' = IF f \in PidFlows THEN NoCredentials ELSE credentials
       /\ status' = [s \in Slots |->
                       IF f \in PidFlows /\ s \in EaaConfigs THEN "initial" ELSE shown[s]]
       /\ UNCHANGED flowParams
  ELSE /\ pc' = [pc EXCEPT ![f] = "failed"]
       /\ status' = [shown EXCEPT ![slot] = "error"]
       /\ flowParams' = IF f \in PidFlows THEN NoFlow ELSE flowParams
       /\ UNCHANGED <<attestation, credentials>>

\* The user taps a button; a button in loading state cannot be tapped.  If
\* the store holds no fresh attestation the thunk first awaits a new one.
StartFlow(f, slot) ==
  /\ pc[f] = "idle"
  /\ slot \in SlotsOf(f)
  /\ status[slot] # "loading"
  /\ requested' = [requested EXCEPT ![f] = slot]
  /\ IF ShouldRequestWia
     THEN /\ StartAttestation(f)
          /\ pc' = [pc EXCEPT ![f] = "attest"]
          /\ status' = Pending(slot)
          /\ UNCHANGED <<attestation, credentials, flowParams>>
     ELSE ReadStore(f, slot, Pending(slot)) /\ UNCHANGED instanceVars
  /\ UNCHANGED <<keyVars, params, dpopKey, granted, offered, pid, issued>>

\* Faulty variant: the flow goes on only if the store now has an attestation.
AfterAttestationStored(f) ==
  /\ pc[f] = "attest"
  /\ task[f] = "idle"
  /\ wia # NoWia
  /\ ReadStore(f, requested[f], status)
  /\ UNCHANGED <<keyVars, instanceVars, requested, params, dpopKey, granted,
                 offered, pid, issued>>

\* The awaited attestation thunk is over; its outcome is not looked at.
AfterAttestation(f) ==
  /\ pc[f] = "attest"
  /\ task[f] = "idle"
  /\ ReadStore(f, requested[f], status)
  /\ UNCHANGED <<keyVars, instanceVars, requested, params, dpopKey, granted,
                 offered, pid, issued>>

\* The issuer accepts a client attestation that is not expired and whose
\* proof of possession, made now, is by the attested key.
ClientAuthenticated(a) ==
  /\ PublicKey(WIA_KEYTAG) = a.key
  /\ a.key \notin expired

\* An EAA flow pushes its request, presents the PID and gets a code.
AuthorizeEaa(f) ==
  /\ f \notin PidFlows
  /\ pc[f] = "authorize"
  /\ ClientAuthenticated(attestation[f])
  /\ pc' = [pc EXCEPT ![f] = "delete"]
  /\ params' = [params EXCEPT ![f] = f]
  /\ UNCHANGED <<keyVars, instanceVars, requested, attestation, dpopKey,
                 granted, offered, issued, storeVars>>

\* A PID flow pushes its request; its first thunk ends by storing the
\* parameters of the second.
PreparePid(f) ==
  /\ f \in PidFlows
  /\ pc[f] = "authorize"
  /\ ClientAuthenticated(attestation[f])
  /\ pc' = [pc EXCEPT ![f] = "webview"]
  /\ flowParams' = f
  /\ UNCHANGED <<keyVars, instanceVars, requested, attestation, params, dpopKey,
                 granted, offered, issued, credentials, pid, status>>

\* The user has logged in: the second thunk starts with the code of f and
\* the parameters the store holds now.
ContinuePid(f) ==
  /\ pc[f] = "webview"
  /\ IF flowParams = NoFlow
     THEN Reject(f)
     ELSE /\ pc' = [pc EXCEPT ![f] = "delete"]
          /\ params' = [params EXCEPT ![f] = flowParams]
          /\ status' = [status EXCEPT ![ParamsMethod] = "loading"]
          /\ UNCHANGED <<requested, attestation, dpopKey, granted, offered,
                         credentials, pid, flowParams>>
  /\ UNCHANGED <<keyVars, instanceVars, issued>>

\* The user leaves the login page, which resets the PID flow or does not.
AbandonPid(f) ==
  /\ pc[f] = "webview"
  /\ pc' = [pc EXCEPT ![f] = "failed"]
  /\ \/ /\ flowParams' = NoFlow
        /\ status' = [s \in Slots |-> IF s \in AuthMethods THEN "initial"
                                                           ELSE status[s]]
     \/ UNCHANGED <<flowParams, status>>
  /\ UNCHANGED <<keyVars, instanceVars, requested, attestation, params, dpopKey,
                 granted, offered, issued, credentials, pid>>
-----------------------------------------------------------------------------
(* From the code to the access token *)

\* Faulty variants: no key is deleted, or that of the other shared tag is.
SkipDelete(f) ==
  /\ pc[f] = "delete"
  /\ pc' = [pc EXCEPT ![f] = "generate"]
  /\ UNCHANGED <<keyVars, instanceVars, requested, attestation, params, dpopKey,
                 granted, offered, issued, storeVars>>

DeleteOtherKey(f) ==
  /\ pc[f] = "delete"
  /\ DeleteKeyIfExists(WIA_KEYTAG)
  /\ pc' = [pc EXCEPT ![f] = "generate"]
  /\ UNCHANGED <<instanceVars, requested, attestation, params, dpopKey, granted,
                 offered, issued, storeVars>>

\* The two halves of regenerateCryptoKey(DPOP_KEYTAG).
DeleteDpopKey(f) ==
  /\ pc[f] = "delete"
  /\ DeleteKeyIfExists(DPOP_KEYTAG)
  /\ pc' = [pc EXCEPT ![f] = "generate"]
  /\ UNCHANGED <<instanceVars, requested, attestation, params, dpopKey, granted,
                 offered, issued, storeVars>>

GenerateDpopKey(f) ==
  /\ pc[f] = "generate"
  /\ Generate({DPOP_KEYTAG})
  /\ pc' = [pc EXCEPT ![f] = "token"]
  /\ UNCHANGED <<instanceVars, requested, attestation, params, dpopKey, granted,
                 offered, issued, storeVars>>

\* What the token endpoint may grant.  The PID flow looks its configuration
\* up in the answer; the EAA flow takes the first one there.
Grantable(f) ==
  IF f \in PidFlows THEN {PidConfig}
  ELSE IF IssuerSubstitutes THEN EaaConfigs ELSE {requested[f]}

\* The code is spent for a token bound to the DPoP key of the request.
AuthorizeAccess(f) ==
  /\ pc[f] = "token"
  /\ PublicKey(DPOP_KEYTAG) # NoKey
  /\ params[f] = f
  /\ ClientAuthenticated(attestation[f])
  /\ dpopKey' = [dpopKey EXCEPT ![f] = PublicKey(DPOP_KEYTAG)]
  /\ \E config \in Grantable(f) : granted' = [granted EXCEPT ![f] = config]
  /\ pc' = [pc EXCEPT ![f] = "keys"]
  /\ UNCHANGED <<keyVars, instanceVars, requested, attestation, params, offered,
                 issued, storeVars>>
-----------------------------------------------------------------------------
(* From the access token to the stored credential *)

\* The PID is one credential, an EAA a batch of which the first is kept.
KeyTagsOf(f) == IF f \in PidFlows THEN {<<f, 1>>} ELSE TagsOf(f)

\* Faulty variant: the tag of the PID is used again.
FirstTagReused(f) == PastTag

FirstTag(f) == <<f, 1>>

\* Version 1.0.0 just generates the keys.  In getWalletUnitAttestationThunk the
\* provider attests keys generated for a nonce of its own, for an instance it
\* considers valid.
GenerateCredentialKeys(f) ==
  /\ pc[f] = "keys"
  /\ WuaSupported => instance # NoInstance /\ provider[instance] = "valid"
  /\ Generate(KeyTagsOf(f))
  /\ pc' = [pc EXCEPT ![f] = "obtain"]
  /\ UNCHANGED <<instanceVars, requested, attestation, params, dpopKey, granted,
                 offered, issued, storeVars>>

\* One generation or the request of the attestation fails: the keys that
\* were generated stay in the keychain.
FailCredentialKeys(f) ==
  /\ pc[f] = "keys"
  /\ \E T \in SUBSET KeyTagsOf(f) :
       /\ WuaSupported /\ instance = NoInstance => T = {}
       /\ Generate(T)
  /\ Reject(f)
  /\ UNCHANGED <<instanceVars, issued>>

\* obtainCredentialsBatch throws in version 1.0.0.
BatchImplemented(f) == f \in PidFlows \/ BatchSize = 1 \/ WuaSupported

\* The keys whose proofs of possession the credential request carries.
ProvenKeys(f) == {PublicKey(t) : t \in KeyTagsOf(f)}

\* The issuer accepts the request when its DPoP proof is by the key of the
\* token.  It binds one credential to each proven key and lists them in an
\* order of its own; a faulty one may also start with a credential that is
\* bound to another key of the wallet, or to none.
ObtainCredential(f) ==
  /\ pc[f] = "obtain"
  /\ BatchImplemented(f)
  /\ PublicKey(DPOP_KEYTAG) = dpopKey[f]
  /\ \E k \in {PublicKey(t) : t \in Tags} \cup {NoKey} :
       offered' = [offered EXCEPT ![f] = k]
  /\ issued' = issued \cup ProvenKeys(f)
  /\ pc' = [pc EXCEPT ![f] = "verify"]
  /\ UNCHANGED <<keyVars, instanceVars, requested, attestation, params, dpopKey,
                 granted, storeVars>>

\* The issuer has issued, but the answer is lost, deferred (transaction_id)
\* or of another length than the batch: the flow ends without a credential.
IssuedButLost(f) ==
  /\ pc[f] = "obtain"
  /\ BatchImplemented(f)
  /\ PublicKey(DPOP_KEYTAG) = dpopKey[f]
  /\ issued' = issued \cup ProvenKeys(f)
  /\ Reject(f)
  /\ UNCHANGED <<keyVars, instanceVars>>

\* Faulty variant: a credential bound to any key of the wallet will do.
HolderBoundAnywhere(f) ==
  offered[f] # NoKey /\ \E t \in Tags : offered[f] = PublicKey(t)

\* Faulty variant: the holder binding is not verified.
HolderBoundUnchecked(f) == TRUE

\* The holder binding of a credential is verified against its context's key.
HolderBound(f) == offered[f] = PublicKey(FirstTag(f))

\* The first credential is verified with the first tag; the fulfilled thunk
\* stores it under the configuration of the token and marks that one done.
VerifyAndStore(f) ==
  /\ pc[f] = "verify"
  /\ HolderBound(f)
  /\ pc' = [pc EXCEPT ![f] = "done"]
  /\ LET credential == [tag |-> FirstTag(f), key |-> offered[f]] IN
     IF f \in PidFlows
     THEN /\ pid' = credential
          /\ status' = [status EXCEPT ![ParamsMethod] = "done"]
          /\ flowParams' = NoFlow
          /\ UNCHANGED credentials
     ELSE /\ credentials' = [credentials EXCEPT ![granted[f]] = credential]
          /\ status' = [status EXCEPT ![granted[f]] = "done"]
          /\ UNCHANGED <<pid, flowParams>>
  /\ DropLocals(f)
  /\ UNCHANGED <<keyVars, instanceVars, requested, attestation, params, issued>>
-----------------------------------------------------------------------------
(* Failures *)

\* An await rejects: for one of these reasons, or the network, an error
\* answer, a failed verification, an invalid document.
StepFails(f) ==
  /\ pc[f] \in Waiting \ {"attest", "webview", "keys"}
  /\ Reject(f)
  /\ UNCHANGED <<keyVars, instanceVars, issued>>

\* The app is killed and started again: the thunks in flight are gone, with
\* the state that is not persisted.
AppRestart ==
  /\ pc' = [f \in Flows |-> IF pc[f] \in Waiting THEN "failed" ELSE pc[f]]
  /\ dpopKey' = [f \in Flows |-> NoKey]
  /\ granted' = [f \in Flows |-> NoConfig]
  /\ offered' = [f \in Flows |-> NoKey]
  /\ task' = [r \in Requesters |-> "idle"]
  /\ taskInstance' = [r \in Requesters |-> NoInstance]
  /\ taskKey' = [r \in Requesters |-> NoKey]
  /\ creating' = {}
  /\ revoking' = NoRevocation
  /\ lifeLoading' = NotLoading
  /\ flowParams' = NoFlow
  /\ status' = NoStatus
  /\ UNCHANGED <<keyVars, instance, created, provider, wia, expired, requested,
                 attestation, params, issued, credentials, pid>>

\* An instance or session reset: every slice returns to its initial state.
ResetStore ==
  /\ ResetStep
  /\ credentials' = NoCredentials
  /\ pid' = NoCredential
  /\ flowParams' = NoFlow
  /\ status' = NoStatus

\* The steps a flow takes by itself, without the user.
FlowStep(f) ==
  \/ AfterAttestation(f)
  \/ AuthorizeEaa(f)
  \/ PreparePid(f)
  \/ DeleteDpopKey(f)
  \/ GenerateDpopKey(f)
  \/ AuthorizeAccess(f)
  \/ GenerateCredentialKeys(f)
  \/ FailCredentialKeys(f)
  \/ ObtainCredential(f)
  \/ IssuedButLost(f)
  \/ VerifyAndStore(f)
  \/ StepFails(f)

\* The steps of a flow that wait for the user.
UserStep(f) ==
  \/ \E slot \in Slots : StartFlow(f, slot)
  \/ ContinuePid(f)
  \/ AbandonPid(f)
=============================================================================
