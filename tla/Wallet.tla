------------------------------- MODULE Wallet -------------------------------
(***************************************************************************)
(* The wallet app: the attestation thunks, the issuance flows, the         *)
(* lifecycle of the instance and the user, over one keychain and one store.*)
(***************************************************************************)
EXTENDS Issuance

CONSTANT
  Events   \* what may happen besides the flows that are started

ASSUME EventsAssumption ==
  Events \subseteq {"ui", "expiry", "lifecycle", "reset", "restart"}

walletVars == <<keyVars, instanceVars, flowVars, issued, storeVars>>

Init == InstanceInit /\ IssuanceInit

\* Steps of the modules below, with what they do not mention unchanged.
AttestationStep(r) ==
  TaskStep(r) /\ UNCHANGED <<flowVars, issued, storeVars>>

UiRequestsAttestation ==
  /\ "ui" \in Events
  /\ StartAttestation(Ui)
  /\ UNCHANGED <<keyVars, flowVars, issued, storeVars>>

Expiry ==
  /\ "expiry" \in Events
  /\ ExpireAttestation
  /\ UNCHANGED <<flowVars, issued, storeVars>>

Lifecycle ==
  /\ "lifecycle" \in Events
  /\ LifecycleStep
  /\ UNCHANGED <<keyVars, flowVars, issued, storeVars>>

Reset ==
  /\ "reset" \in Events
  /\ ResetStore
  /\ UNCHANGED <<keyVars, flowVars, issued>>

Restart == "restart" \in Events /\ AppRestart

Next ==
  \/ \E f \in Flows : FlowStep(f) \/ UserStep(f)
  \/ \E r \in Requesters : AttestationStep(r)
  \/ UiRequestsAttestation
  \/ Expiry
  \/ Lifecycle
  \/ Reset
  \/ Restart

\* Every await of a thunk is eventually resolved or rejected.  The user need
\* not do anything, and nothing else need happen.
Fairness ==
  /\ \A f \in Flows : WF_walletVars(FlowStep(f))
  /\ \A r \in Requesters : WF_walletVars(AttestationStep(r))

Spec == Init /\ [][Next]_walletVars

FairSpec == Spec /\ Fairness
-----------------------------------------------------------------------------
(* Safety *)

\* Every variable has its type.
TypeOK == KeychainTypeOK /\ InstanceTypeOK /\ IssuanceTypeOK

Places == EaaConfigs \cup {PidConfig}

Held == [p \in Places |-> IF p = PidConfig THEN pid ELSE credentials[p]]

\* A stored credential can be presented: the key it is bound to is under the
\* tag stored with it (utils/credential.ts pairs the first credential of the
\* answer with the first tag), though tags are shared, deleted, regenerated
\* and left behind by failed flows all the time.
StoredCredentialUsable ==
  \A p \in Places : Held[p] # NoCredential => keychain[Held[p].tag] = Held[p].key

\* No two places of the store share a key, so revealing the holder key of one
\* credential does not link it to another.
CredentialKeysDistinct ==
  \A p, q \in Places :
    p # q /\ Held[p] # NoCredential /\ Held[q] # NoCredential
      => Held[p].key # Held[q].key

\* The store never names an instance that no provider has registered, as its
\* own or as that of its attestation, whatever creations, revocations and
\* attestation requests outlive a reset, overtake each other or lose their
\* answers: several of a kind may be in flight, since a reset makes the buttons
\* usable under a running thunk.
InstanceRegistered ==
  /\ instance # NoInstance => provider[instance] # "unknown"
  /\ wia # NoWia => provider[wia.instance] # "unknown"

\* What the wallet promises about the store, as a specification of its own.
Promise == INSTANCE WalletPromise WITH
  Tag     <- CredentialTags,
  Keys    <- Key,
  Nothing <- NoCredential,
  vault   <- [t \in CredentialTags |-> keychain[t]],
  held    <- Held

PromiseKept == Promise!Spec
-----------------------------------------------------------------------------
(* Liveness *)

\* A button that loads has a flow in flight that asked for its configuration,
\* though flows outlive the resets of the store and end later requests for the
\* same, or the issuer granted another configuration to one that did: the
\* safety half of LoadingEnds, which runs on fairness from here.
LoadingAwaited ==
  \A c \in EaaConfigs : status[c] = "loading" =>
    \E f \in Flows \ PidFlows :
      /\ requested[f] = c
      /\ pc[f] \in Waiting \/ (IssuerSubstitutes /\ pc[f] = "done")

\* A button of the credential screen does not stay in loading state for ever:
\* each request ends in a credential or an error.  The reducers clear the
\* state of the granted configuration, so the issuer must grant the requested.
LoadingEnds ==
  \A c \in EaaConfigs : status[c] = "loading" ~> status[c] # "loading"
-----------------------------------------------------------------------------
(* What the documentation and the comments of the code say *)

\* README.md of the library: getPublicKey of a crypto context "MUST be the
\* same key at every invocation".  A flow builds its WIA context once, when
\* it reads the attestation, and uses it until the token request.
ContextKeyStable ==
  \A f \in Flows :
    pc[f] \in {"authorize", "delete", "generate", "token"}
      => keychain[WIA_KEYTAG] = attestation[f].key

\* WalletInstanceScreen.tsx: recreating the instance "will reset the whole
\* app state except the session", so no attestation outlives its instance.
AttestationOfInstance == wia # NoWia => wia.instance = instance
=============================================================================
