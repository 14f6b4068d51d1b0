-------------------------- MODULE InterferenceProofs --------------------------
(***************************************************************************)
(* Proofs about flows that nobody disturbs, for any number of flows,       *)
(* configurations, instances and key pairs.                                *)
(***************************************************************************)
EXTENDS Interference, WalletProofs

(* Whose steps they are *)

\* The attestation thunk of a flow only runs while the flow awaits it.
TaskOfFlow == \A f \in Flows : task[f] # "idle" => pc[f] = "attest"

\* The store holds no attestation that a request can use.
Obtainable == wia = NoWia \/ wia.key \in expired

\* The steps of the flow g itself, apart from its attestation thunk.
StepOf(g) == FlowStep(g) \/ UserStep(g)

LEMMA PcOfOthers ==
  ASSUME IssuanceTypeOK, NEW g \in Flows, StepOf(g), NEW f \in Flows \ {g}
  PROVE  pc'[f] = pc[f]
<1> USE DEF IssuanceTypeOK
<1>1. CASE AfterAttestation(g) \/ \E slot \in Slots : StartFlow(g, slot)
  BY <1>1 DEF AfterAttestation, StartFlow, ReadStore
<1>2. CASE FailCredentialKeys(g) \/ IssuedButLost(g) \/ StepFails(g) \/ ContinuePid(g)
  BY <1>2 DEF FailCredentialKeys, IssuedButLost, StepFails, ContinuePid, Reject
<1>3. CASE \/ AuthorizeEaa(g) \/ PreparePid(g) \/ DeleteDpopKey(g) \/ GenerateDpopKey(g)
           \/ AuthorizeAccess(g) \/ GenerateCredentialKeys(g) \/ ObtainCredential(g)
           \/ VerifyAndStore(g) \/ AbandonPid(g)
  BY <1>3 DEF AuthorizeEaa, PreparePid, DeleteDpopKey, GenerateDpopKey, AuthorizeAccess,
              GenerateCredentialKeys, ObtainCredential, VerifyAndStore, AbandonPid
<1> QED BY <1>1, <1>2, <1>3 DEF StepOf, FlowStep, UserStep

\* A flow that is not waiting only begins to wait by a step of its own.
LEMMA PcStays ==
  ASSUME TypeOK, Next, NEW f \in Flows, pc[f] \notin Waiting, ~StepOf(f)
  PROVE  pc'[f] \notin Waiting
<1> USE DEF TypeOK
<1>1. ASSUME NEW g \in Flows \ {f}, StepOf(g) PROVE pc'[f] = pc[f]
  BY <1>1, PcOfOthers
<1>2. (\E r \in Requesters : AttestationStep(r)) \/ UiRequestsAttestation \/ Expiry \/ Lifecycle
        \/ Reset => UNCHANGED pc
  BY DEF AttestationStep, UiRequestsAttestation, Expiry, Lifecycle, Reset, flowVars
<1>3. Restart => pc'[f] = pc[f]
  BY DEF Restart, AppRestart
<1> QED BY <1>1, <1>2, <1>3 DEF Next, StepOf

LEMMA InstanceOfOthers ==
  ASSUME NEW g \in Flows, StepOf(g)
  PROVE  \/ UNCHANGED instanceVars
         \/ /\ \E slot \in Slots : StartFlow(g, slot)
            /\ StartAttestation(g) /\ pc' = [pc EXCEPT ![g] = "attest"]
            /\ Obtainable
<1>1. CASE \E slot \in Slots : StartFlow(g, slot)
  BY <1>1 DEF StartFlow, ShouldRequestWia, Obtainable
<1>2. CASE \/ AfterAttestation(g) \/ AuthorizeEaa(g) \/ PreparePid(g) \/ DeleteDpopKey(g)
           \/ GenerateDpopKey(g) \/ AuthorizeAccess(g) \/ GenerateCredentialKeys(g)
           \/ FailCredentialKeys(g) \/ ObtainCredential(g) \/ IssuedButLost(g)
           \/ VerifyAndStore(g) \/ StepFails(g) \/ ContinuePid(g) \/ AbandonPid(g)
  BY <1>2 DEF AfterAttestation, AuthorizeEaa, PreparePid, DeleteDpopKey, GenerateDpopKey,
              AuthorizeAccess, GenerateCredentialKeys, FailCredentialKeys, ObtainCredential,
              IssuedButLost, VerifyAndStore, StepFails, ContinuePid, AbandonPid
<1> QED BY <1>1, <1>2 DEF StepOf, FlowStep, UserStep

\* A step during which f waits is that of a bystander, unless it is f's own,
\* or time passes, or the app is restarted.
LEMMA NotBystander ==
  ASSUME TypeOK, Next, NEW f \in Flows, pc[f] \in Waiting, ~Bystander(f)
  PROVE  StepOf(f) \/ AttestationStep(f) \/ Expiry \/ Restart
<1> USE DEF TypeOK
<1>0. task \in [Requesters -> {"idle", "delete", "generate", "request", "sign", "sent"}]
      /\ f \in Requesters
  BY DEF InstanceTypeOK, Requesters
<1>1. ASSUME NEW g \in Flows \ {f}, StepOf(g) PROVE Bystander(f)
  <2>1. pc'[f] = pc[f]
    BY <1>1, PcOfOthers
  <2>2. UNCHANGED <<task, expired>> \/ StartAttestation(g)
    BY <1>1, InstanceOfOthers DEF instanceVars, taskVars
  <2>3. task'[f] = task[f] /\ expired' = expired
    BY <1>0, <1>1, <2>2 DEF StartAttestation
  <2> QED BY <2>1, <2>3 DEF Bystander
<1>2. ASSUME NEW r \in Requesters \ {f}, AttestationStep(r) PROVE Bystander(f)
  <2>1. UNCHANGED <<pc, expired>>
    BY <1>2 DEF AttestationStep, flowVars, TaskStep, DeleteWiaKey, GenerateWiaKey,
                RequestAttestation, SendAttestationRequest, StoreAttestation, RejectAttestation
  <2>2. task'[f] = task[f]
    BY <1>0, <1>2 DEF AttestationStep, TaskStep, DeleteWiaKey, GenerateWiaKey, RequestAttestation,
                SendAttestationRequest, StoreAttestation, RejectAttestation, EndTask
  <2> QED BY <2>1, <2>2 DEF Bystander
<1>3. UiRequestsAttestation => Bystander(f)
  BY <1>0, InstanceAssumption DEF UiRequestsAttestation, StartAttestation, flowVars, Bystander
<1>4. Lifecycle \/ Reset => Bystander(f)
  BY DEF Lifecycle, LifecycleStep, StartCreate, FinishCreate, FailCreate, StartRevoke, FailRevoke,
         Reset, ResetStore, ResetStep, Recreate, FinishRevoke, SwitchEnvironment, flowVars,
         taskVars, Bystander
<1> QED BY <1>1, <1>2, <1>3, <1>4 DEF Next, StepOf

LEMMA TaskOfFlowStep ==
  ASSUME TypeOK, TaskOfFlow, Next PROVE TaskOfFlow'
<1> USE DEF TypeOK, TaskOfFlow
<1>0. /\ task \in [Requesters -> {"idle", "delete", "generate", "request", "sign", "sent"}]
      /\ pc \in [Flows -> Waiting \cup {"idle", "done", "failed"}]
      /\ Flows \subseteq Requesters
  BY DEF InstanceTypeOK, IssuanceTypeOK, Requesters
<1>1. ASSUME NEW g \in Flows, StepOf(g) PROVE TaskOfFlow'
  <2>1. \A f \in Flows \ {g} : pc'[f] = pc[f]
    BY <1>1, PcOfOthers
  <2>2. CASE StartAttestation(g) /\ pc' = [pc EXCEPT ![g] = "attest"]
    BY <1>0, <2>1, <2>2 DEF StartAttestation
  <2>3. CASE UNCHANGED instanceVars
    <3>1. UNCHANGED task
      BY <2>3 DEF instanceVars, taskVars
    <3>2. task[g] = "idle"
      BY <1>0, <1>1, <2>3
      DEF StepOf, FlowStep, UserStep, StartFlow, AfterAttestation, AuthorizeEaa, PreparePid,
          DeleteDpopKey, GenerateDpopKey, AuthorizeAccess, GenerateCredentialKeys,
          FailCredentialKeys, ObtainCredential, IssuedButLost, VerifyAndStore, StepFails,
          ContinuePid, AbandonPid
    <3> QED BY <2>1, <3>1, <3>2
  <2> QED BY <1>1, <2>2, <2>3, InstanceOfOthers
<1>2. ASSUME NEW r \in Requesters, AttestationStep(r) PROVE TaskOfFlow'
  <2>1. UNCHANGED pc
    BY <1>2 DEF AttestationStep, flowVars
  <2>2. task[r] # "idle" /\ \A f \in Requesters \ {r} : task'[f] = task[f]
    BY <1>0, <1>2 DEF AttestationStep, TaskStep, DeleteWiaKey, GenerateWiaKey, RequestAttestation,
                SendAttestationRequest, StoreAttestation, RejectAttestation, EndTask
  <2> QED BY <1>0, <2>1, <2>2
<1>3. CASE UiRequestsAttestation
  BY <1>0, <1>3, InstanceAssumption DEF UiRequestsAttestation, StartAttestation, flowVars
<1>4. CASE Expiry \/ Lifecycle \/ Reset
  <2>1. UNCHANGED <<pc, task>>
    BY <1>4 DEF Expiry, ExpireAttestation, Lifecycle, LifecycleStep, StartCreate, FinishCreate,
                FailCreate, StartRevoke, FailRevoke, Reset, ResetStore, ResetStep, Recreate,
                FinishRevoke, SwitchEnvironment, flowVars, taskVars
  <2> QED BY <2>1
<1>5. CASE Restart
  BY <1>0, <1>5 DEF Restart, AppRestart
<1> QED BY <1>1, <1>2, <1>3, <1>4, <1>5 DEF Next, StepOf
-----------------------------------------------------------------------------
(* A flow that nobody disturbs *)

\* It awaits an attestation that is needed, and made with the key of the
\* keychain; its DPoP key is that of the keychain, and the parameters are its
\* own.
Alone(f) ==
  /\ pc[f] = "attest" =>
       /\ task[f] # "idle" => Obtainable
       /\ task[f] \in {"sign", "sent"} => taskKey[f] = keychain[WIA_KEYTAG]
       /\ Obtainable \/ wia.key = keychain[WIA_KEYTAG]
  /\ pc[f] = "webview" => flowParams = f
  /\ pc[f] \in {"delete", "generate", "token"} => params[f] = f
  /\ pc[f] = "generate" => keychain[DPOP_KEYTAG] = NoKey
  /\ pc[f] = "token" => keychain[DPOP_KEYTAG] # NoKey
  /\ pc[f] \in {"keys", "obtain"} => keychain[DPOP_KEYTAG] = dpopKey[f]

AloneInvariant == TaskOfFlow /\ \A f \in Flows \ disturbed : Alone(f)

\* Its own steps.
LEMMA StepAlone ==
  ASSUME TypeOK, NEW f \in Flows, Alone(f), StepOf(f) PROVE Alone(f)'
<1> USE KeychainAssumption, TagFacts DEF TypeOK, KeychainTypeOK, IssuanceTypeOK, Alone, PublicKey
<1>1. ASSUME NEW slot \in Slots, StartFlow(f, slot) PROVE Alone(f)'
  <2>1. CASE ShouldRequestWia
    <3>1. pc'[f] = "attest" /\ UNCHANGED <<wia, expired>> /\ Obtainable
          /\ task'[f] \in {"idle", "delete"}
      BY <1>1, <2>1 DEF StartFlow, StartAttestation, InstanceTypeOK, Requesters,
                        ShouldRequestWia, Obtainable
    <3> QED BY <3>1 DEF Obtainable
  <2>2. CASE ~ShouldRequestWia
    BY <1>1, <2>2 DEF StartFlow, ReadStore
  <2> QED BY <2>1, <2>2
<1>2. CASE AfterAttestation(f)
  BY <1>2 DEF AfterAttestation, ReadStore
<1>3. CASE AuthorizeEaa(f) \/ PreparePid(f) \/ DeleteDpopKey(f)
  BY <1>3 DEF AuthorizeEaa, PreparePid, DeleteDpopKey, DeleteKeyIfExists
<1>4. CASE GenerateDpopKey(f)
  <2>1. keychain'[DPOP_KEYTAG] # NoKey
    BY <1>4 DEF GenerateDpopKey, Generate, Key
  <2> QED BY <1>4, <2>1 DEF GenerateDpopKey
<1>5. CASE AuthorizeAccess(f)
  BY <1>5 DEF AuthorizeAccess, keyVars
<1>6. CASE GenerateCredentialKeys(f)
  <2>1. keychain'[DPOP_KEYTAG] = keychain[DPOP_KEYTAG]
    BY <1>6 DEF GenerateCredentialKeys, Generate
  <2> QED BY <1>6, <2>1 DEF GenerateCredentialKeys
<1>7. CASE ObtainCredential(f) \/ VerifyAndStore(f)
  BY <1>7 DEF ObtainCredential, VerifyAndStore
<1>8. CASE ContinuePid(f)
  BY <1>8 DEF ContinuePid, Reject
<1>9. CASE FailCredentialKeys(f) \/ IssuedButLost(f) \/ StepFails(f) \/ AbandonPid(f)
  BY <1>9 DEF FailCredentialKeys, IssuedButLost, StepFails, AbandonPid, Reject, Waiting
<1> QED BY <1>1, <1>2, <1>3, <1>4, <1>5, <1>6, <1>7, <1>8, <1>9 DEF StepOf, FlowStep, UserStep

\* The steps of the attestation thunk it awaits.
LEMMA AttestationAlone ==
  ASSUME TypeOK, TaskOfFlow, NEW f \in Flows, Alone(f), AttestationStep(f) PROVE Alone(f)'
<1> USE KeychainAssumption, TagFacts DEF TypeOK, InstanceTypeOK, Alone, PublicKey, Obtainable, Requesters
<1>1. task[f] # "idle" /\ UNCHANGED pc
  BY DEF AttestationStep, TaskStep, DeleteWiaKey, GenerateWiaKey, RequestAttestation,
         SendAttestationRequest, StoreAttestation, RejectAttestation, flowVars
<1>2. pc'[f] = "attest" /\ Obtainable
  BY <1>1 DEF TaskOfFlow
<1>3. CASE DeleteWiaKey(f) \/ GenerateWiaKey(f) \/ RequestAttestation(f) \/ SendAttestationRequest(f)
  BY <1>2, <1>3 DEF DeleteWiaKey, GenerateWiaKey, RequestAttestation, SendAttestationRequest, keyVars
<1>4. CASE StoreAttestation(f)
  BY <1>1, <1>2, <1>4 DEF StoreAttestation, EndTask, keyVars
<1>5. CASE RejectAttestation(f)
  BY <1>1, <1>2, <1>5 DEF RejectAttestation, EndTask, keyVars
<1> QED BY <1>3, <1>4, <1>5 DEF AttestationStep, TaskStep

LEMMA AloneStep ==
  ASSUME TypeOK, AloneInvariant, InterferenceNext PROVE AloneInvariant'
<1>1. TaskOfFlow'
  BY TaskOfFlowStep DEF AloneInvariant, InterferenceNext
<1>2. ASSUME NEW f \in Flows \ disturbed' PROVE Alone(f)'
  <2>1. f \in Flows /\ f \notin disturbed /\ Alone(f) /\ Next /\ ~Bystander(f)
    BY <1>2 DEF InterferenceNext, AloneInvariant
  <2>2. CASE StepOf(f)
    BY <2>1, <2>2, StepAlone
  <2>3. CASE AttestationStep(f)
    BY <2>1, <2>3, AttestationAlone DEF AloneInvariant
  <2>4. CASE Expiry
    BY <2>1, <2>4 DEF Expiry, ExpireAttestation, Alone, Obtainable, flowVars, taskVars, keyVars,
                      storeVars
  <2>5. CASE Restart
    BY <2>1, <2>5 DEF Restart, AppRestart, Alone, TypeOK, IssuanceTypeOK, Waiting
  <2>6. CASE pc[f] \in Waiting
    BY <2>1, <2>2, <2>3, <2>4, <2>5, <2>6, NotBystander
  <2>7. CASE pc[f] \notin Waiting /\ ~StepOf(f)
    <3>1. pc'[f] \notin Waiting
      BY <2>1, <2>7, PcStays
    <3> QED BY <3>1 DEF Alone, Waiting
  <2> QED BY <2>2, <2>6, <2>7
<1> QED BY <1>1, <1>2 DEF AloneInvariant
-----------------------------------------------------------------------------
(* The theorems *)

LEMMA AloneInductive == InterferenceSpec => []WalletInvariant /\ []AloneInvariant
<1>1. InterferenceInit => WalletInvariant
  BY InitLemma DEF InterferenceInit
<1>2. InterferenceInit => AloneInvariant
  <2> SUFFICES ASSUME InterferenceInit PROVE AloneInvariant
    OBVIOUS
  <2>1. (\A f \in Flows : pc[f] = "idle") /\ (\A r \in Requesters : task[r] = "idle")
    BY DEF InterferenceInit, Init, InstanceInit, IssuanceInit
  <2> QED BY <2>1 DEF AloneInvariant, TaskOfFlow, Alone, Requesters
<1>3. WalletInvariant /\ [InterferenceNext]_<<walletVars, disturbed>> => WalletInvariant'
  BY NextLemma DEF InterferenceNext
<1>4. WalletInvariant /\ AloneInvariant /\ [InterferenceNext]_<<walletVars, disturbed>>
        => AloneInvariant'
  <2>1. AloneInvariant /\ UNCHANGED <<walletVars, disturbed>> => AloneInvariant'
    BY DEF AloneInvariant, TaskOfFlow, Alone, Obtainable, walletVars, keyVars, instanceVars,
           taskVars, flowVars, storeVars
  <2>2. WalletInvariant => TypeOK
    BY DEF WalletInvariant, KeyInvariant, TaskInvariant, FlowInvariant, TypeOK
  <2> QED BY <2>1, <2>2, AloneStep
<1> QED BY <1>1, <1>2, <1>3, <1>4, PTL DEF InterferenceSpec

\* Whatever abandoned flows, failures and restarts left in the keychain and in
\* the store, a flow during which nobody else takes a step finds its own DPoP
\* key and its own parameters.
THEOREM Unobstructed == InterferenceSpec => []UndisturbedUnobstructed
<1>1. AloneInvariant => UndisturbedUnobstructed
  BY DEF AloneInvariant, Alone, UndisturbedUnobstructed, DpopKeyExists, DpopKeyLost, ForeignParams,
         ParamsLost, PublicKey
<1> QED BY <1>1, AloneInductive, PTL

\* Such a flow goes on with an attestation of the key in the keychain, or with
\* the expired one that it could not replace.
THEOREM UsableWhenRead == InterferenceSpec => AttestationUsableWhenRead
<1> DEFINE Reads ==
      \A f \in Flows \ disturbed :
        pc[f] = "attest" /\ pc'[f] = "authorize" =>
          \/ attestation'[f].key = keychain[WIA_KEYTAG]
          \/ attestation'[f].key \in expired
<1>1. WalletInvariant /\ AloneInvariant /\ InterferenceNext => Reads
  <2> SUFFICES ASSUME WalletInvariant, AloneInvariant, InterferenceNext,
                      NEW f \in Flows \ disturbed, pc[f] = "attest", pc'[f] = "authorize"
               PROVE  attestation'[f].key = keychain[WIA_KEYTAG] \/ attestation'[f].key \in expired
    OBVIOUS
  <2>1. TypeOK /\ Next /\ Alone(f)
    BY DEF WalletInvariant, KeyInvariant, TaskInvariant, FlowInvariant, TypeOK, InterferenceNext,
           AloneInvariant
  <2>2. StepOf(f)
    <3>1. ~Bystander(f) /\ pc[f] \in Waiting
      BY DEF Bystander, Waiting
    <3>2. ~AttestationStep(f) /\ ~Expiry
      BY DEF AttestationStep, Expiry, flowVars
    <3>3. ~Restart
      BY <2>1 DEF Restart, AppRestart, TypeOK, IssuanceTypeOK
    <3> QED BY <2>1, <3>1, <3>2, <3>3, NotBystander
  <2>3. AfterAttestation(f)
    BY <2>1, <2>2
    DEF StepOf, FlowStep, UserStep, StartFlow, AuthorizeEaa, PreparePid, DeleteDpopKey,
        GenerateDpopKey, AuthorizeAccess, GenerateCredentialKeys, FailCredentialKeys,
        ObtainCredential, IssuedButLost, VerifyAndStore, StepFails, ContinuePid, AbandonPid
  <2>4. wia # NoWia /\ attestation'[f] = wia
    BY <2>1, <2>3 DEF AfterAttestation, ReadStore, TypeOK, IssuanceTypeOK
  <2> QED BY <2>1, <2>4 DEF Alone, Obtainable
<1>3. InterferenceSpec => [][InterferenceNext]_<<walletVars, disturbed>>
  BY DEF InterferenceSpec
<1>4. WalletInvariant /\ AloneInvariant /\ [InterferenceNext]_<<walletVars, disturbed>>
        => [Reads]_<<walletVars, disturbed>>
  BY <1>1
<1> QED BY <1>3, <1>4, AloneInductive, PTL DEF AttestationUsableWhenRead

\* Nobody but another flow or the screen replaces the key of an attestation
\* that is in use.
THEOREM KeepsAttestationKey == InterferenceSpec => AttestationKeyKept
<1> DEFINE Keeps ==
      \A f \in Flows \ disturbed' :
        pc[f] \in {"authorize", "delete", "generate", "token"} =>
          (keychain[WIA_KEYTAG] = Presented(f).key => keychain'[WIA_KEYTAG] = Presented(f).key)
<1>1. WalletInvariant /\ AloneInvariant /\ InterferenceNext => Keeps
  <2> SUFFICES ASSUME WalletInvariant, AloneInvariant, InterferenceNext,
                      NEW f \in Flows \ disturbed',
                      pc[f] \in {"authorize", "delete", "generate", "token"}
               PROVE  keychain'[WIA_KEYTAG] = keychain[WIA_KEYTAG]
    OBVIOUS
  <2>1. TypeOK /\ Next /\ TaskOfFlow /\ ~Bystander(f) /\ pc[f] \in Waiting
    BY DEF WalletInvariant, KeyInvariant, TaskInvariant, FlowInvariant, TypeOK, InterferenceNext,
           AloneInvariant, Waiting
  <2>2. ~AttestationStep(f)
    BY <2>1 DEF TaskOfFlow, AttestationStep, TaskStep, DeleteWiaKey, GenerateWiaKey,
                RequestAttestation, SendAttestationRequest, StoreAttestation, RejectAttestation
  <2>3. CASE Expiry \/ Restart
    BY <2>3 DEF Expiry, ExpireAttestation, Restart, AppRestart, keyVars
  <2>4. CASE StepOf(f)
    <3> USE KeychainAssumption, TagFacts
    <3>1. CASE DeleteDpopKey(f)
      BY <2>1, <3>1 DEF DeleteDpopKey, DeleteKeyIfExists, TypeOK, KeychainTypeOK
    <3>2. CASE GenerateDpopKey(f)
      BY <2>1, <3>2 DEF GenerateDpopKey, Generate
    <3>3. CASE ~DeleteDpopKey(f) /\ ~GenerateDpopKey(f)
      BY <2>1, <2>4, <3>3
      DEF StepOf, FlowStep, UserStep, StartFlow, AfterAttestation, AuthorizeEaa, PreparePid,
          AuthorizeAccess, GenerateCredentialKeys, FailCredentialKeys, ObtainCredential,
          IssuedButLost, VerifyAndStore, StepFails, ContinuePid, AbandonPid, keyVars
    <3> QED BY <3>1, <3>2, <3>3
  <2> QED BY <2>1, <2>2, <2>3, <2>4, NotBystander
<1>3. InterferenceSpec => [][InterferenceNext]_<<walletVars, disturbed>>
  BY DEF InterferenceSpec
<1>4. WalletInvariant /\ AloneInvariant /\ [InterferenceNext]_<<walletVars, disturbed>>
        => [Keeps]_<<walletVars, disturbed>>
  BY <1>1
<1> QED BY <1>3, <1>4, AloneInductive, PTL DEF AttestationKeyKept
=============================================================================
