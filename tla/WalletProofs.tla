---------------------------- MODULE WalletProofs ----------------------------
(***************************************************************************)
(* Proofs about the wallet for any number of flows, configurations,        *)
(* instances and key pairs, any batch size and any environment.            *)
(***************************************************************************)
EXTENDS Wallet, TLAPS

-----------------------------------------------------------------------------
(* The inductive invariant *)

\* A thunk that runs knows its instance; once the request is made, its key.
TasksOK ==
  \A r \in Requesters :
    /\ task[r] # "idle" => taskInstance[r] \in Instances
    /\ task[r] \in {"sign", "sent"} => taskKey[r] \in Key

\* A flow that runs asks for something of its kind; one about to be issued a
\* credential holds the keys of its tags.
FlowOK(f) ==
  /\ pc[f] # "idle" => requested[f] \in SlotsOf(f)
  /\ pc[f] \in {"keys", "obtain", "verify"} /\ f \notin PidFlows =>
       granted[f] \in EaaConfigs
  /\ pc[f] \in {"obtain", "verify"} =>
       \A t \in KeyTagsOf(f) : keychain[t] # NoKey
  /\ pc[f] = "verify" => keychain[FirstTag(f)] \in issued

FlowsOK == \A f \in Flows : FlowOK(f)

\* A key carries the tag it was generated under.
KeysOK == \A t \in Tags : keychain[t] # NoKey => keychain[t][1] = t

\* A stored credential has the key of its tag, an issuer knows that key, and
\* the flow the tag belongs to is over.
CredentialOK(c) ==
  c # NoCredential =>
    /\ keychain[c.tag] = c.key
    /\ c.key \in issued
    /\ c.tag[1] # Past => pc[c.tag[1]] = "done"

CredentialsOK ==
  /\ CredentialOK(pid)
  /\ \A c \in EaaConfigs : CredentialOK(credentials[c])

\* No two places hold credentials with the same tag.
TagsDistinct ==
  /\ \A c \in EaaConfigs : credentials[c] # NoCredential =>
       /\ pid # NoCredential => credentials[c].tag # pid.tag
       /\ \A d \in EaaConfigs \ {c} : credentials[d] # NoCredential =>
            credentials[c].tag # credentials[d].tag

-----------------------------------------------------------------------------
(* The keychain *)

\* Facts about tags and keys that every proof below needs.
LEMMA TagFacts ==
  /\ WIA_KEYTAG \in Tags /\ DPOP_KEYTAG \in Tags
  /\ CredentialTags \subseteq Tags
  /\ WIA_KEYTAG \notin CredentialTags /\ DPOP_KEYTAG \notin CredentialTags
  /\ PastTag \in CredentialTags
  /\ \A f \in Flows : /\ FirstTag(f) \in KeyTagsOf(f)
                      /\ KeyTagsOf(f) \subseteq CredentialTags
                      /\ \A t \in KeyTagsOf(f) : t[1] = f
  /\ NoKey \notin Key
BY KeychainAssumption
   DEF Tags, CredentialTags, PastTag, FirstTag, KeyTagsOf, TagsOf

\* A step keeps the key of every credential.
KeysKept ==
  \A t \in CredentialTags : keychain[t] # NoKey => keychain'[t] = keychain[t]

KeyInvariant == KeychainTypeOK /\ KeysOK

\* A step that does not touch the keychain.
LEMMA KeysStutter ==
  ASSUME KeyInvariant, UNCHANGED keyVars
  PROVE  KeyInvariant' /\ KeysKept
BY DEF KeyInvariant, KeychainTypeOK, KeysOK, KeysKept, keyVars

\* Generating keys respects the types, and leaves every key that exists.
LEMMA GenerateLemma ==
  ASSUME KeyInvariant, NEW T \in SUBSET Tags, Generate(T)
  PROVE  KeyInvariant' /\ KeysKept /\ \A t \in T : keychain'[t] # NoKey
<1>1. KeychainTypeOK'
  BY DEF KeyInvariant, KeychainTypeOK, Generate, Key
<1>2. KeysOK'
  BY TagFacts DEF KeyInvariant, KeychainTypeOK, KeysOK, Generate
<1>3. KeysKept
  BY TagFacts DEF KeysKept, Generate
<1>4. \A t \in T : keychain'[t] # NoKey
  BY TagFacts DEF KeyInvariant, KeychainTypeOK, Generate, Key
<1>. QED  BY <1>1, <1>2, <1>3, <1>4 DEF KeyInvariant

\* Deleting a shared key respects the types, and leaves those of credentials.
LEMMA DeleteLemma ==
  ASSUME KeyInvariant, NEW t \in Tags, t \notin CredentialTags,
         DeleteKeyIfExists(t)
  PROVE  KeyInvariant' /\ KeysKept
<1>1. KeychainTypeOK'
  BY DEF KeyInvariant, KeychainTypeOK, DeleteKeyIfExists
<1>2. KeysOK'
  BY DEF KeyInvariant, KeychainTypeOK, KeysOK, DeleteKeyIfExists
<1>3. KeysKept
  BY TagFacts DEF KeyInvariant, KeychainTypeOK, KeysKept, DeleteKeyIfExists
<1>. QED  BY <1>1, <1>2, <1>3 DEF KeyInvariant
-----------------------------------------------------------------------------
(* The attestation thunks and the instance *)

TaskInvariant == InstanceTypeOK /\ TasksOK

\* A step of other parts.
LEMMA InstanceStutter ==
  ASSUME TaskInvariant, UNCHANGED instanceVars
  PROVE  TaskInvariant'
BY DEF TaskInvariant, InstanceTypeOK, TasksOK, instanceVars, lifeVars, taskVars

\* Starting an attestation thunk.
LEMMA StartAttestationLemma ==
  ASSUME TaskInvariant, NEW r \in Requesters, StartAttestation(r)
  PROVE  TaskInvariant'
<1>1. InstanceTypeOK'
  BY DEF TaskInvariant, InstanceTypeOK, StartAttestation, lifeVars
<1>2. TasksOK'
  BY DEF TaskInvariant, InstanceTypeOK, TasksOK, StartAttestation
<1>. QED  BY <1>1, <1>2 DEF TaskInvariant

\* Every step of an attestation thunk.
LEMMA TaskStepLemma ==
  ASSUME KeyInvariant, TaskInvariant, NEW r \in Requesters, TaskStep(r)
  PROVE  TaskInvariant' /\ KeyInvariant' /\ KeysKept
<1>. USE DEF TaskInvariant, InstanceTypeOK, TasksOK, lifeVars
<1>1. CASE DeleteWiaKey(r)
  BY <1>1, DeleteLemma, TagFacts DEF DeleteWiaKey
<1>2. CASE GenerateWiaKey(r)
  <2>1. KeyInvariant' /\ KeysKept
    BY <1>2, GenerateLemma, TagFacts DEF GenerateWiaKey
  <2>. QED  BY <1>2, <2>1 DEF GenerateWiaKey
<1>3. CASE RequestAttestation(r)
  <2>1. PublicKey(WIA_KEYTAG) \in Key
    BY <1>3, TagFacts DEF RequestAttestation, PublicKey, KeyInvariant, KeychainTypeOK
  <2>2. KeyInvariant' /\ KeysKept
    BY <1>3, KeysStutter DEF RequestAttestation
  <2>. QED  BY <1>3, <2>1, <2>2 DEF RequestAttestation
<1>4. CASE SendAttestationRequest(r)
  BY <1>4, KeysStutter DEF SendAttestationRequest
<1>5. CASE StoreAttestation(r)
  BY <1>5, KeysStutter DEF StoreAttestation, EndTask, Attestation
<1>6. CASE RejectAttestation(r)
  BY <1>6, KeysStutter DEF RejectAttestation, EndTask
<1>. QED  BY <1>1, <1>2, <1>3, <1>4, <1>5, <1>6 DEF TaskStep

\* An attestation reaches its exp.
LEMMA ExpiryLemma ==
  ASSUME TaskInvariant, ExpireAttestation
  PROVE  TaskInvariant'
BY DEF TaskInvariant, InstanceTypeOK, TasksOK, ExpireAttestation, lifeVars,
       taskVars, Attestation

\* The steps of the instance's lifecycle.
LEMMA LifecycleLemma ==
  ASSUME TaskInvariant, LifecycleStep \/ ResetStep
  PROVE  TaskInvariant'
<1>. USE InstanceAssumption
     DEF TaskInvariant, InstanceTypeOK, TasksOK, taskVars, Instances, NoInstance,
         ResetInstance, NotLoading
<1>a. BeginCreate => created' \in 0..MaxInstances /\ creating' \subseteq Instances
  BY DEF BeginCreate
<1>1. CASE StartCreate
  <2>1. lifeLoading' \in [create : BOOLEAN, revoke : BOOLEAN]
    BY <1>1 DEF StartCreate
  <2>. QED  BY <1>1, <1>a, <2>1 DEF StartCreate
<1>2. CASE \E i \in Instances : FinishCreate(i)  BY <1>2 DEF FinishCreate, SettleCreate
<1>3. CASE \E i \in Instances : FailCreate(i)  BY <1>3 DEF FailCreate, SettleCreate
<1>4. CASE StartRevoke
  <2>1. lifeLoading' \in [create : BOOLEAN, revoke : BOOLEAN]
    BY <1>4 DEF StartRevoke
  <2>2. instance \in Instances /\ revoking[instance] + 1 \in Nat
    BY <1>4 DEF StartRevoke
  <2>3. revoking' \in [Instances -> Nat]
    BY <1>4, <2>2 DEF StartRevoke
  <2>. QED  BY <1>4, <2>1, <2>3 DEF StartRevoke
<1>5. CASE \E i \in Instances : FailRevoke(i)
  <2>1. PICK i \in Instances : FailRevoke(i)
    BY <1>5
  <2>2. lifeLoading' \in [create : BOOLEAN, revoke : BOOLEAN]
    BY <2>1 DEF FailRevoke
  <2>3. revoking[i] - 1 \in Nat
    BY <2>1 DEF FailRevoke, SettleRevoke
  <2>4. revoking' \in [Instances -> Nat]
    BY <2>1, <2>3 DEF FailRevoke, SettleRevoke
  <2>. QED  BY <2>1, <2>2, <2>4 DEF FailRevoke
<1>6. CASE Recreate
  <2>. QED  BY <1>6, <1>a DEF Recreate
<1>7. CASE \E i \in Instances : FinishRevoke(i)  BY <1>7 DEF FinishRevoke, SettleRevoke
<1>8. CASE SwitchEnvironment  BY <1>8 DEF SwitchEnvironment
<1>. QED  BY <1>1, <1>2, <1>3, <1>4, <1>5, <1>6, <1>7, <1>8
          DEF LifecycleStep, ResetStep
-----------------------------------------------------------------------------
(* The flows and the store *)

\* The store forgets at most: no credential is added or changed, no flow that
\* is done is anything else, no key is un-issued.
StoreKept ==
  /\ issued \subseteq issued'
  /\ \A f \in Flows : pc[f] = "done" => pc'[f] = "done"
  /\ pid' \in {pid, NoCredential}
  /\ \A c \in EaaConfigs : credentials'[c] \in {credentials[c], NoCredential}

StoreInvariant == CredentialsOK /\ TagsDistinct

\* A step that keeps the keys of the credentials, and the store.
LEMMA StoreKeptLemma ==
  ASSUME IssuanceTypeOK, StoreInvariant, KeysKept, StoreKept
  PROVE  StoreInvariant'
<1>1. ASSUME NEW c \in Credential \cup {NoCredential}, CredentialOK(c)
      PROVE  c # NoCredential => /\ keychain'[c.tag] = c.key
                                 /\ c.key \in issued'
                                 /\ c.tag[1] # Past => pc'[c.tag[1]] = "done"
  <2>1. SUFFICES ASSUME c # NoCredential
                 PROVE  /\ keychain'[c.tag] = c.key
                        /\ c.key \in issued'
                        /\ c.tag[1] # Past => pc'[c.tag[1]] = "done"
    OBVIOUS
  <2>2. /\ c.tag \in CredentialTags /\ c.key \in Key
        /\ c.tag[1] \in Flows \cup {Past}
    BY <2>1 DEF Credential, CredentialTags
  <2>. QED  BY <1>1, <2>1, <2>2, TagFacts DEF CredentialOK, KeysKept, StoreKept
<1>2. pid \in Credential \cup {NoCredential}
  BY DEF IssuanceTypeOK
<1>3. CredentialOK(pid)'
  BY <1>1, <1>2 DEF StoreInvariant, CredentialsOK, CredentialOK, StoreKept
<1>4. ASSUME NEW c \in EaaConfigs
      PROVE  CredentialOK(credentials[c])'
  <2>1. credentials[c] \in Credential \cup {NoCredential}
    BY DEF IssuanceTypeOK
  <2>. QED  BY <1>1, <2>1 DEF StoreInvariant, CredentialsOK, CredentialOK, StoreKept
<1>5. TagsDistinct'
  BY DEF StoreInvariant, TagsDistinct, StoreKept
<1>. QED  BY <1>3, <1>4, <1>5 DEF StoreInvariant, CredentialsOK

\* The flows that do not move keep what is known of them.
LEMMA OtherFlows ==
  ASSUME FlowsOK, KeysKept, NEW f \in Flows, FlowOK(f)',
         issued \subseteq issued',
         \A g \in Flows \ {f} : /\ pc'[g] = pc[g]
                                /\ requested'[g] = requested[g]
                                /\ granted'[g] = granted[g]
  PROVE  FlowsOK'
<1>1. ASSUME NEW g \in Flows \ {f}
      PROVE  FlowOK(g)'
  BY TagFacts DEF FlowsOK, FlowOK, KeysKept
<1>. QED  BY <1>1 DEF FlowsOK

FlowInvariant == IssuanceTypeOK /\ FlowsOK /\ StoreInvariant

\* A step of f that moves no other flow and adds nothing to the store.
LEMMA FlowFrame ==
  ASSUME FlowInvariant, KeysKept, StoreKept, IssuanceTypeOK',
         NEW f \in Flows, FlowOK(f)',
         \A g \in Flows \ {f} : /\ pc'[g] = pc[g]
                                /\ requested'[g] = requested[g]
                                /\ granted'[g] = granted[g]
  PROVE  FlowInvariant'
BY OtherFlows, StoreKeptLemma DEF FlowInvariant, StoreKept

\* A rejection.
LEMMA RejectLemma ==
  ASSUME FlowInvariant, KeysKept, NEW f \in Flows, pc[f] \in Waiting, Reject(f),
         issued \subseteq issued', issued' \subseteq Key
  PROVE  FlowInvariant'
<1>1. IssuanceTypeOK'
  BY DEF FlowInvariant, IssuanceTypeOK, Reject, DropLocals
<1>2. /\ \A g \in Flows \ {f} : /\ pc'[g] = pc[g]
                                /\ requested'[g] = requested[g]
                                /\ granted'[g] = granted[g]
      /\ FlowOK(f)'
  BY DEF FlowInvariant, IssuanceTypeOK, FlowsOK, FlowOK, Reject, DropLocals, Waiting
<1>3. StoreKept
  BY DEF FlowInvariant, IssuanceTypeOK, StoreKept, Reject, Waiting
<1>. QED  BY <1>1, <1>2, <1>3, FlowFrame

\* The synchronous start of a flow, apart from what the caller adds.
LEMMA ReadStoreLemma ==
  ASSUME FlowInvariant, TaskInvariant, KeysKept, NEW f \in Flows,
         NEW slot \in SlotsOf(f), pc[f] \in {"idle", "attest"},
         NEW shown \in [Slots -> {"initial", "loading", "done", "error"}],
         ReadStore(f, slot, shown), requested' = [requested EXCEPT ![f] = slot],
         UNCHANGED <<params, dpopKey, granted, offered, pid, issued>>
  PROVE  FlowInvariant'
<1>. USE IssuanceAssumption
<1>0. slot \in Slots /\ wia \in Attestation \cup {NoWia}
  BY DEF SlotsOf, Slots, TaskInvariant, InstanceTypeOK
<1>1. IssuanceTypeOK'
  <2>1. CASE wia # NoWia /\ (f \in PidFlows \/ pid # NoCredential)
    <3>1. status' \in [Slots -> {"initial", "loading", "done", "error"}]
      BY <2>1 DEF FlowInvariant, IssuanceTypeOK, ReadStore
    <3>. QED  BY <2>1, <3>1, <1>0
              DEF FlowInvariant, IssuanceTypeOK, ReadStore, NoCredentials, Waiting
  <2>2. CASE ~(wia # NoWia /\ (f \in PidFlows \/ pid # NoCredential))
    BY <2>2, <1>0 DEF FlowInvariant, IssuanceTypeOK, ReadStore, Waiting
  <2>. QED  BY <2>1, <2>2
<1>2. \A g \in Flows \ {f} : /\ pc'[g] = pc[g]
                             /\ requested'[g] = requested[g]
                             /\ granted'[g] = granted[g]
  BY DEF FlowInvariant, IssuanceTypeOK, ReadStore
<1>3. pc'[f] \in {"authorize", "failed"} /\ requested'[f] = slot
  BY DEF FlowInvariant, IssuanceTypeOK, ReadStore
<1>4. FlowOK(f)'
  BY <1>3 DEF FlowOK, SlotsOf
<1>5. StoreKept
  BY DEF FlowInvariant, IssuanceTypeOK, StoreKept, ReadStore, NoCredentials
<1>. QED  BY <1>1, <1>2, <1>4, <1>5, FlowFrame

\* The steps that only move f and its locals along.
LEMMA AdvanceLemma ==
  ASSUME FlowInvariant, KeysKept, NEW f \in Flows, IssuanceTypeOK',
         pc[f] \in Waiting, FlowOK(f)',
         \A g \in Flows \ {f} : pc'[g] = pc[g] /\ granted'[g] = granted[g],
         issued \subseteq issued', UNCHANGED <<requested, credentials, pid>>
  PROVE  FlowInvariant'
<1>1. StoreKept
  BY DEF FlowInvariant, IssuanceTypeOK, StoreKept, Waiting
<1>. QED  BY <1>1, FlowFrame
-----------------------------------------------------------------------------
(* Every step of a flow *)

\* The step that adds to the store.
LEMMA VerifyAndStoreLemma ==
  ASSUME FlowInvariant, KeyInvariant, NEW f \in Flows, VerifyAndStore(f)
  PROVE  FlowInvariant'
<1>1. /\ FlowOK(f) /\ pc[f] = "verify" /\ keychain' = keychain /\ issued' = issued
      /\ offered[f] = keychain[FirstTag(f)]
  BY DEF FlowInvariant, FlowsOK, VerifyAndStore, HolderBound, PublicKey, keyVars
<1>2. PICK new \in Credential : new = [tag |-> FirstTag(f), key |-> offered[f]]
  BY <1>1, TagFacts DEF Credential, FlowOK, KeyInvariant, KeychainTypeOK
<1>2a. /\ new # NoCredential /\ new.tag = FirstTag(f) /\ new.key = offered[f]
       /\ new.tag[1] = f /\ f # Past
  BY <1>2, KeychainAssumption, IssuanceAssumption DEF Credential, FirstTag
<1>3. KeysKept
  BY <1>1 DEF KeysKept
<1>4. pc' = [pc EXCEPT ![f] = "done"] /\ requested' = requested
  BY DEF VerifyAndStore
<1>5. IssuanceTypeOK'
  BY <1>1, <1>2
     DEF FlowInvariant, IssuanceTypeOK, VerifyAndStore, DropLocals, Waiting
<1>6. FlowsOK'
  <2>1. \A g \in Flows \ {f} : granted'[g] = granted[g]
    BY DEF FlowInvariant, IssuanceTypeOK, VerifyAndStore, DropLocals
  <2>2. FlowOK(f)'
    BY <1>1, <1>4 DEF FlowInvariant, IssuanceTypeOK, FlowOK
  <2>. QED  BY <1>1, <1>3, <1>4, <2>1, <2>2, OtherFlows
            DEF FlowInvariant, IssuanceTypeOK
<1>7. /\ CredentialOK(new)'
      /\ \A c \in Credential \cup {NoCredential} :
           CredentialOK(c) => CredentialOK(c)' /\ (c # NoCredential => c.tag # new.tag)
  <2>1. CredentialOK(new)'
    BY <1>1, <1>2a, <1>4 DEF CredentialOK, FlowOK, FlowInvariant, IssuanceTypeOK
  <2>2. ASSUME NEW c \in Credential \cup {NoCredential}, CredentialOK(c)
        PROVE  CredentialOK(c)' /\ (c # NoCredential => c.tag # new.tag)
    <3>1. c # NoCredential => c.tag[1] \in Flows \cup {Past}
      BY DEF Credential, CredentialTags
    <3>. QED  BY <1>1, <1>2a, <1>4, <2>2, <3>1
              DEF CredentialOK, FlowInvariant, IssuanceTypeOK
  <2>. QED  BY <2>1, <2>2
<1>8. CASE f \in PidFlows
  <2>1. pid' = new /\ credentials' = credentials
    BY <1>2, <1>8 DEF VerifyAndStore
  <2>2. CredentialsOK'
    BY <1>7, <2>1 DEF FlowInvariant, IssuanceTypeOK, StoreInvariant, CredentialsOK,
           CredentialOK
  <2>3. TagsDistinct'
    BY <1>7, <2>1 DEF FlowInvariant, IssuanceTypeOK, StoreInvariant, CredentialsOK,
                      TagsDistinct
  <2>. QED  BY <1>5, <1>6, <2>2, <2>3 DEF FlowInvariant, StoreInvariant
<1>9. CASE f \notin PidFlows
  <2>1. /\ pid' = pid
        /\ credentials' = [credentials EXCEPT ![granted[f]] = new]
    BY <1>2, <1>9 DEF VerifyAndStore
  <2>2. \A c \in EaaConfigs :
          /\ credentials[c] \in Credential \cup {NoCredential}
          /\ credentials'[c] = IF c = granted[f] THEN new ELSE credentials[c]
    BY <2>1 DEF FlowInvariant, IssuanceTypeOK
  <2>3. CredentialsOK'
    BY <1>7, <2>1, <2>2
       DEF FlowInvariant, IssuanceTypeOK, StoreInvariant, CredentialsOK,
           CredentialOK
  <2>4. TagsDistinct'
    BY <1>7, <2>1, <2>2
       DEF FlowInvariant, IssuanceTypeOK, StoreInvariant, CredentialsOK, TagsDistinct
  <2>. QED  BY <1>5, <1>6, <2>3, <2>4 DEF FlowInvariant, StoreInvariant
<1>. QED  BY <1>8, <1>9

\* The steps that neither the keychain nor the instance notices.
LEMMA QuietFlowStep ==
  ASSUME FlowInvariant, KeyInvariant, TaskInvariant, NEW f \in Flows,
         \/ AfterAttestation(f) \/ AuthorizeEaa(f) \/ PreparePid(f)
         \/ AuthorizeAccess(f) \/ ObtainCredential(f) \/ IssuedButLost(f)
         \/ VerifyAndStore(f) \/ StepFails(f) \/ ContinuePid(f) \/ AbandonPid(f)
  PROVE  FlowInvariant' /\ KeyInvariant' /\ TaskInvariant' /\ KeysKept
<1>1. UNCHANGED keyVars /\ UNCHANGED instanceVars
  BY DEF AfterAttestation, AuthorizeEaa, PreparePid, AuthorizeAccess,
         ObtainCredential, IssuedButLost, VerifyAndStore, StepFails, ContinuePid,
         AbandonPid
<1>2. KeyInvariant' /\ TaskInvariant' /\ KeysKept
  BY <1>1, KeysStutter, InstanceStutter
<1>3. ProvenKeys(f) \subseteq Key \cup {NoKey} /\ FlowOK(f)
  BY TagFacts DEF ProvenKeys, PublicKey, KeyInvariant, KeychainTypeOK,
                  FlowInvariant, FlowsOK
<1>4. pc[f] = "obtain" => ProvenKeys(f) \subseteq Key
  BY <1>3 DEF FlowOK, ProvenKeys, PublicKey
<1>. USE DEF FlowInvariant, IssuanceTypeOK, storeVars
<1>5. CASE AfterAttestation(f)
  <2>1. requested[f] \in SlotsOf(f) /\ requested' = [requested EXCEPT ![f] = requested[f]]
    BY <1>3, <1>5 DEF AfterAttestation, FlowOK
  <2>. QED  BY <1>2, <1>5, <2>1, ReadStoreLemma DEF AfterAttestation
<1>6. CASE AuthorizeEaa(f)
  <2>1. IssuanceTypeOK' /\ FlowOK(f)'
    BY <1>3, <1>6 DEF AuthorizeEaa, FlowOK, Waiting
  <2>. QED  BY <1>2, <1>6, <2>1, AdvanceLemma DEF AuthorizeEaa, Waiting
<1>7. CASE PreparePid(f)
  <2>1. IssuanceTypeOK' /\ FlowOK(f)'
    BY <1>3, <1>7 DEF PreparePid, FlowOK, Waiting
  <2>. QED  BY <1>2, <1>7, <2>1, AdvanceLemma DEF PreparePid, Waiting
<1>8. CASE AuthorizeAccess(f)
  <2>1. Grantable(f) \subseteq Configs /\ (f \notin PidFlows => Grantable(f) \subseteq EaaConfigs)
    BY <1>3, <1>8 DEF AuthorizeAccess, Grantable, Configs, FlowOK, SlotsOf
  <2>2. PublicKey(DPOP_KEYTAG) \in Key
    BY <1>8, TagFacts DEF AuthorizeAccess, PublicKey, KeyInvariant, KeychainTypeOK
  <2>3. PICK config \in Grantable(f) : granted' = [granted EXCEPT ![f] = config]
    BY <1>8 DEF AuthorizeAccess
  <2>4. IssuanceTypeOK'
    BY <1>8, <2>1, <2>2, <2>3 DEF AuthorizeAccess, Waiting
  <2>5. FlowOK(f)'
    BY <1>3, <1>8, <2>1, <2>3 DEF AuthorizeAccess, FlowOK
  <2>. QED  BY <1>2, <1>8, <2>3, <2>4, <2>5, AdvanceLemma DEF AuthorizeAccess, Waiting
<1>9. CASE ObtainCredential(f)
  <2>1. {PublicKey(t) : t \in Tags} \subseteq Key \cup {NoKey}
    BY DEF PublicKey, KeyInvariant, KeychainTypeOK
  <2>2. IssuanceTypeOK'
    BY <1>4, <1>9, <2>1 DEF ObtainCredential, Waiting
  <2>3. keychain[FirstTag(f)] \in ProvenKeys(f)
    BY TagFacts DEF ProvenKeys, PublicKey
  <2>4. FlowOK(f)'
    BY <1>1, <1>3, <1>9, <2>3 DEF ObtainCredential, FlowOK, keyVars
  <2>. QED  BY <1>2, <1>9, <2>2, <2>4, AdvanceLemma DEF ObtainCredential, Waiting
<1>10. CASE IssuedButLost(f)
  BY <1>2, <1>4, <1>10, RejectLemma DEF IssuedButLost, Waiting
<1>11. CASE VerifyAndStore(f)
  BY <1>2, <1>11, VerifyAndStoreLemma
<1>12. CASE StepFails(f)
  BY <1>2, <1>12, RejectLemma DEF StepFails
<1>13. CASE ContinuePid(f)
  <2>1. CASE flowParams = NoFlow
    BY <1>2, <1>13, <2>1, RejectLemma DEF ContinuePid, Waiting
  <2>2. CASE flowParams # NoFlow
    <3>1. IssuanceTypeOK' /\ FlowOK(f)'
      BY <1>3, <1>13, <2>2, IssuanceAssumption DEF ContinuePid, FlowOK, Waiting
    <3>. QED  BY <1>2, <1>13, <2>2, <3>1, AdvanceLemma DEF ContinuePid, Waiting
  <2>. QED  BY <2>1, <2>2
<1>14. CASE AbandonPid(f)
  <2>1. IssuanceTypeOK' /\ FlowOK(f)'
    BY <1>3, <1>14 DEF AbandonPid, FlowOK, Waiting
  <2>. QED  BY <1>2, <1>14, <2>1, AdvanceLemma DEF AbandonPid, Waiting
<1>. QED  BY <1>2, <1>5, <1>6, <1>7, <1>8, <1>9, <1>10, <1>11, <1>12, <1>13, <1>14

\* The steps that change the keychain.
LEMMA KeyFlowStep ==
  ASSUME FlowInvariant, KeyInvariant, TaskInvariant, NEW f \in Flows,
         \/ DeleteDpopKey(f) \/ GenerateDpopKey(f)
         \/ GenerateCredentialKeys(f) \/ FailCredentialKeys(f)
  PROVE  FlowInvariant' /\ KeyInvariant' /\ TaskInvariant' /\ KeysKept
<1>1. TaskInvariant'
  BY InstanceStutter
     DEF DeleteDpopKey, GenerateDpopKey, GenerateCredentialKeys, FailCredentialKeys
<1>2. FlowOK(f) /\ KeyTagsOf(f) \in SUBSET Tags /\ {DPOP_KEYTAG} \in SUBSET Tags
  BY TagFacts DEF FlowInvariant, FlowsOK
<1>. USE DEF FlowInvariant, IssuanceTypeOK, storeVars
<1>3. CASE DeleteDpopKey(f)
  <2>1. KeyInvariant' /\ KeysKept
    BY <1>3, DeleteLemma, TagFacts DEF DeleteDpopKey
  <2>2. IssuanceTypeOK' /\ FlowOK(f)'
    BY <1>2, <1>3 DEF DeleteDpopKey, FlowOK, Waiting
  <2>. QED  BY <1>1, <1>3, <2>1, <2>2, AdvanceLemma DEF DeleteDpopKey, Waiting
<1>4. CASE GenerateDpopKey(f)
  <2>1. KeyInvariant' /\ KeysKept
    BY <1>2, <1>4, GenerateLemma DEF GenerateDpopKey
  <2>2. IssuanceTypeOK' /\ FlowOK(f)'
    BY <1>2, <1>4 DEF GenerateDpopKey, FlowOK, Waiting
  <2>. QED  BY <1>1, <1>4, <2>1, <2>2, AdvanceLemma DEF GenerateDpopKey, Waiting
<1>5. CASE GenerateCredentialKeys(f)
  <2>1. KeyInvariant' /\ KeysKept /\ \A t \in KeyTagsOf(f) : keychain'[t] # NoKey
    BY <1>2, <1>5, GenerateLemma DEF GenerateCredentialKeys
  <2>2. IssuanceTypeOK'
    BY <1>5 DEF GenerateCredentialKeys, Waiting
  <2>3. FlowOK(f)'
    BY <1>2, <1>5, <2>1 DEF GenerateCredentialKeys, FlowOK, KeyTagsOf
  <2>. QED  BY <1>1, <1>5, <2>1, <2>2, <2>3, AdvanceLemma
            DEF GenerateCredentialKeys, Waiting
<1>6. CASE FailCredentialKeys(f)
  <2>1. PICK T \in SUBSET KeyTagsOf(f) : Generate(T)
    BY <1>6 DEF FailCredentialKeys
  <2>2. KeyInvariant' /\ KeysKept
    BY <1>2, <2>1, GenerateLemma
  <2>. QED  BY <1>1, <1>6, <2>2, RejectLemma DEF FailCredentialKeys, Waiting
<1>. QED  BY <1>3, <1>4, <1>5, <1>6

\* The user starts a flow.
LEMMA StartFlowLemma ==
  ASSUME FlowInvariant, KeyInvariant, TaskInvariant, NEW f \in Flows,
         NEW slot \in Slots, StartFlow(f, slot)
  PROVE  FlowInvariant' /\ KeyInvariant' /\ TaskInvariant' /\ KeysKept
<1>1. KeyInvariant' /\ KeysKept
  BY KeysStutter DEF StartFlow
<1>2. slot \in SlotsOf(f) /\ f \in Requesters
  BY DEF StartFlow, Requesters
<1>3. CASE ShouldRequestWia
  <2>1. TaskInvariant'
    BY <1>2, <1>3, StartAttestationLemma DEF StartFlow
  <2>2. IssuanceTypeOK'
    BY <1>3 DEF FlowInvariant, IssuanceTypeOK, StartFlow, Waiting, Pending
  <2>3. /\ FlowOK(f)'
        /\ \A g \in Flows \ {f} : /\ pc'[g] = pc[g]
                                  /\ requested'[g] = requested[g]
                                  /\ granted'[g] = granted[g]
    BY <1>2, <1>3 DEF FlowInvariant, IssuanceTypeOK, StartFlow, FlowOK, SlotsOf
  <2>4. StoreKept
    BY <1>3 DEF FlowInvariant, IssuanceTypeOK, StartFlow, StoreKept
  <2>. QED  BY <1>1, <2>1, <2>2, <2>3, <2>4, FlowFrame
<1>4. CASE ~ShouldRequestWia
  <2>1. Pending(slot) \in [Slots -> {"initial", "loading", "done", "error"}]
    BY DEF Pending, FlowInvariant, IssuanceTypeOK
  <2>. QED  BY <1>1, <1>2, <1>4, <2>1, InstanceStutter, ReadStoreLemma DEF StartFlow
<1>. QED  BY <1>3, <1>4
-----------------------------------------------------------------------------
(* Steps of the environment *)

\* Steps that no flow takes and that leave the store alone.
LEMMA FlowStutter ==
  ASSUME FlowInvariant, KeysKept, UNCHANGED <<flowVars, issued, storeVars>>
  PROVE  FlowInvariant'
<1>. USE DEF FlowInvariant, IssuanceTypeOK, flowVars, storeVars
<1>1. IssuanceTypeOK'
  OBVIOUS
<1>2. FlowsOK'
  BY TagFacts DEF FlowsOK, FlowOK, KeysKept
<1>3. StoreInvariant'
  BY StoreKeptLemma DEF StoreKept
<1>. QED  BY <1>1, <1>2, <1>3

\* A reset of the store.
LEMMA ResetLemma ==
  ASSUME FlowInvariant, KeyInvariant, TaskInvariant, Reset
  PROVE  FlowInvariant' /\ KeyInvariant' /\ TaskInvariant'
<1>1. KeyInvariant' /\ KeysKept /\ TaskInvariant'
  BY KeysStutter, LifecycleLemma DEF Reset, ResetStore
<1>. USE DEF FlowInvariant, IssuanceTypeOK, Reset, ResetStore, flowVars
<1>2. IssuanceTypeOK'
  BY DEF NoCredentials, NoStatus
<1>3. FlowsOK'
  BY <1>1, TagFacts DEF FlowsOK, FlowOK, KeysKept
<1>4. StoreInvariant'
  BY <1>1, StoreKeptLemma DEF StoreKept, NoCredentials
<1>. QED  BY <1>1, <1>2, <1>3, <1>4

\* A restart of the app.
LEMMA RestartLemma ==
  ASSUME FlowInvariant, KeyInvariant, TaskInvariant, AppRestart
  PROVE  FlowInvariant' /\ KeyInvariant' /\ TaskInvariant'
<1>1. KeyInvariant' /\ KeysKept
  BY KeysStutter DEF AppRestart
<1>2. TaskInvariant'
  BY DEF TaskInvariant, InstanceTypeOK, TasksOK, AppRestart, NoInstance, NoRevocation, NotLoading
<1>. USE DEF FlowInvariant, IssuanceTypeOK, AppRestart
<1>3. IssuanceTypeOK'
  BY DEF NoStatus, Waiting
<1>4. FlowsOK'
  BY DEF FlowsOK, FlowOK, Waiting
<1>5. StoreInvariant'
  BY <1>1, StoreKeptLemma DEF StoreKept, Waiting
<1>. QED  BY <1>1, <1>2, <1>3, <1>4, <1>5
-----------------------------------------------------------------------------
(* The invariant *)

WalletInvariant == KeyInvariant /\ TaskInvariant /\ FlowInvariant

\* The blank and the provisioned wallet satisfy it.
LEMMA InitLemma == Init => WalletInvariant
<1>. SUFFICES ASSUME Init PROVE WalletInvariant
  OBVIOUS
<1>. USE DEF Init, InstanceInit, IssuanceInit
<1>1. PastPid \in Credential /\ PastPid.tag = PastTag /\ PastPid.key = <<PastTag, 1>>
  BY TagFacts DEF PastPid, Credential, Key
<1>2. TaskInvariant
  BY InstanceAssumption
     DEF TaskInvariant, InstanceTypeOK, TasksOK, Instances, NoInstance, NoRevocation, NotLoading
<1>3. pid \in {NoCredential, PastPid}
  OBVIOUS
<1>4. KeyInvariant
  BY TagFacts DEF KeyInvariant, KeychainTypeOK, KeysOK, Key
<1>5. IssuanceTypeOK
  BY <1>1, <1>3 DEF IssuanceTypeOK, NoCredentials, NoStatus, Credential
<1>6. FlowsOK
  BY DEF FlowsOK, FlowOK
<1>7. StoreInvariant
  <2>1. CASE pid = NoCredential
    BY <2>1
       DEF StoreInvariant, CredentialsOK, CredentialOK, TagsDistinct, NoCredentials
  <2>2. CASE pid = PastPid
    <3>1. PastPid # NoCredential /\ PastTag \in Tags /\ PastTag[1] = Past
      BY <1>1, TagFacts, IssuanceAssumption DEF Credential, PastTag
    <3>2. keychain[PastTag] = <<PastTag, 1>> /\ PastPid.key \in issued
      BY <2>2, <3>1
    <3>3. CredentialOK(pid)
      BY <1>1, <2>2, <3>1, <3>2 DEF CredentialOK
    <3>. QED  BY <3>3 DEF StoreInvariant, CredentialsOK, CredentialOK, TagsDistinct,
                          NoCredentials
  <2>. QED  BY <1>3, <2>1, <2>2
<1>. QED  BY <1>2, <1>4, <1>5, <1>6, <1>7 DEF WalletInvariant, FlowInvariant

\* Every step preserves it, and the keys of the credentials.
LEMMA NextLemma ==
  ASSUME WalletInvariant, [Next]_walletVars
  PROVE  WalletInvariant' /\ KeysKept
<1>. USE DEF WalletInvariant
<1>1. CASE UNCHANGED walletVars
  BY <1>1, KeysStutter, InstanceStutter, FlowStutter DEF walletVars
<1>2. ASSUME NEW f \in Flows, FlowStep(f) \/ UserStep(f)
      PROVE  WalletInvariant' /\ KeysKept
  BY <1>2, QuietFlowStep, KeyFlowStep, StartFlowLemma DEF FlowStep, UserStep
<1>3. ASSUME NEW r \in Requesters, AttestationStep(r)
      PROVE  WalletInvariant' /\ KeysKept
  BY <1>3, TaskStepLemma, FlowStutter DEF AttestationStep
<1>4. CASE UiRequestsAttestation
  <2>1. KeyInvariant' /\ KeysKept
    BY <1>4, KeysStutter DEF UiRequestsAttestation
  <2>. QED  BY <1>4, <2>1, StartAttestationLemma, FlowStutter
            DEF UiRequestsAttestation, Requesters
<1>5. CASE Expiry
  <2>1. KeyInvariant' /\ KeysKept
    BY <1>5, KeysStutter DEF Expiry, ExpireAttestation
  <2>. QED  BY <1>5, <2>1, ExpiryLemma, FlowStutter DEF Expiry
<1>6. CASE Lifecycle
  <2>1. KeyInvariant' /\ KeysKept
    BY <1>6, KeysStutter DEF Lifecycle
  <2>. QED  BY <1>6, <2>1, LifecycleLemma, FlowStutter DEF Lifecycle
<1>7. CASE Reset
  BY <1>7, ResetLemma, KeysStutter DEF Reset
<1>8. CASE Restart
  BY <1>8, RestartLemma, KeysStutter DEF Restart, AppRestart
<1>. QED  BY <1>1, <1>2, <1>3, <1>4, <1>5, <1>6, <1>7, <1>8 DEF Next

\* The invariant holds in every behaviour.
THEOREM Invariance == Spec => []WalletInvariant
<1>1. WalletInvariant /\ [Next]_walletVars => WalletInvariant'
  BY NextLemma
<1>. QED  BY <1>1, InitLemma, PTL DEF Spec
-----------------------------------------------------------------------------
(* What follows from it *)

\* Every variable has its type.
THEOREM TypeCorrectness == Spec => []TypeOK
<1>1. WalletInvariant => TypeOK
  BY DEF WalletInvariant, KeyInvariant, TaskInvariant, FlowInvariant, TypeOK
<1>. QED  BY <1>1, Invariance, PTL

\* The places of the store hold what their slices hold.
LEMMA HeldFacts ==
  ASSUME WalletInvariant, NEW p \in Places
  PROVE  /\ Held[p] \in Credential \cup {NoCredential}
         /\ CredentialOK(Held[p])
         /\ \A q \in Places :
              p # q /\ Held[p] # NoCredential /\ Held[q] # NoCredential
                => Held[p].tag # Held[q].tag
BY IssuanceAssumption
   DEF WalletInvariant, FlowInvariant, IssuanceTypeOK, StoreInvariant,
       CredentialsOK, TagsDistinct, Places, Held

\* The key of every credential in the store is in the keychain, under the tag
\* the credential is stored with: no flow, failure, reset or restart loses it.
THEOREM Usability == Spec => []StoredCredentialUsable
<1>1. WalletInvariant => StoredCredentialUsable
  BY HeldFacts DEF StoredCredentialUsable, CredentialOK
<1>. QED  BY <1>1, Invariance, PTL

\* No two credentials of the store share a key.
THEOREM KeyDistinctness == Spec => []CredentialKeysDistinct
<1>1. ASSUME WalletInvariant, NEW p \in Places, Held[p] # NoCredential
      PROVE  Held[p].key # NoKey /\ Held[p].key[1] = Held[p].tag
  <2>1. Held[p] \in Credential /\ CredentialOK(Held[p])
    BY <1>1, HeldFacts
  <2>. QED  BY <1>1, <2>1, TagFacts
            DEF CredentialOK, Credential, WalletInvariant, KeyInvariant, KeysOK
<1>2. WalletInvariant => CredentialKeysDistinct
  BY <1>1, HeldFacts DEF CredentialKeysDistinct
<1>. QED  BY <1>2, Invariance, PTL
-----------------------------------------------------------------------------
(* The wallet implements its promise *)

Vault == [t \in CredentialTags |-> keychain[t]]

\* A step that at most generates keys.
LEMMA GenerateKeysStep ==
  ASSUME KeyInvariant, KeyInvariant', KeysKept, UNCHANGED <<issued, pid, credentials>>
  PROVE  Promise!GenerateKeys
BY TagFacts DEF Promise!GenerateKeys, KeyInvariant, KeychainTypeOK, KeysKept, Held

\* A step that at most empties places of the store.
LEMMA ForgetStep ==
  ASSUME StoreKept, UNCHANGED <<keychain, issued>>
  PROVE  Promise!Forget
BY DEF Promise!Forget, StoreKept, Held, Places

\* A step in which issuers bind credentials to the keys of a flow.
LEMMA IssueStep ==
  ASSUME UNCHANGED <<keychain, pid, credentials>>, NEW f \in Flows,
         issued' = issued \cup ProvenKeys(f)
  PROVE  Promise!Issue
BY TagFacts DEF Promise!Issue, ProvenKeys, PublicKey, Held

\* A step that stores a credential.
LEMMA StoreStep ==
  ASSUME WalletInvariant, WalletInvariant', NEW f \in Flows, VerifyAndStore(f)
  PROVE  \E p \in Places : Promise!Store(p)
<1>1. /\ UNCHANGED <<keychain, issued>> /\ pc[f] = "verify" /\ f # Past
      /\ f \notin PidFlows => granted[f] \in EaaConfigs
  BY KeychainAssumption
     DEF VerifyAndStore, keyVars, WalletInvariant, FlowInvariant, FlowsOK, FlowOK
<1>2. PICK p \in Places :
        /\ Held' = [Held EXCEPT ![p] = Held'[p]]
        /\ Held'[p] = [tag |-> FirstTag(f), key |-> offered[f]]
  <2>1. CASE f \in PidFlows
    <3>1. /\ PidConfig \in Places
          /\ Held' = [Held EXCEPT ![PidConfig] = Held'[PidConfig]]
          /\ Held'[PidConfig] = [tag |-> FirstTag(f), key |-> offered[f]]
      BY <2>1 DEF VerifyAndStore, Held, Places
    <3>. QED  BY <3>1
  <2>2. CASE f \notin PidFlows
    <3>1. PICK c \in EaaConfigs : c = granted[f]
      BY <1>1, <2>2
    <3>2. c \in Places /\ c # PidConfig
      BY IssuanceAssumption DEF Places
    <3>3. /\ pid' = pid
          /\ credentials' = [credentials EXCEPT ![c] = [tag |-> FirstTag(f),
                                                        key |-> offered[f]]]
          /\ credentials \in [EaaConfigs -> Credential \cup {NoCredential}]
      BY <2>2, <3>1 DEF VerifyAndStore, WalletInvariant, FlowInvariant, IssuanceTypeOK
    <3>4. /\ Held'[c] = [tag |-> FirstTag(f), key |-> offered[f]]
          /\ \A q \in Places \ {c} : Held'[q] = Held[q]
      BY <3>2, <3>3 DEF Held, Places
    <3>5. Held' = [Held EXCEPT ![c] = Held'[c]]
      BY <3>4 DEF Held
    <3>. QED  BY <3>2, <3>4, <3>5
  <2>. QED  BY <2>1, <2>2
<1>3. Held'[p] # NoCredential /\ Held'[p] \in Credential
  <2>1. FirstTag(f) \in CredentialTags /\ offered[f] \in Key
    BY TagFacts DEF VerifyAndStore, HolderBound, PublicKey, WalletInvariant,
       KeyInvariant, KeychainTypeOK, FlowInvariant, FlowsOK, FlowOK
  <2>. QED  BY <1>2, <2>1, IssuanceAssumption DEF Credential
<1>4. \A q \in Places \ {p} : Held[q] # Held'[p]
  <2>1. ASSUME NEW q \in Places, Held[q] = Held'[p]
        PROVE  FALSE
    <3>1. CredentialOK(Held[q]) /\ Held[q] # NoCredential /\ Held[q].tag[1] = f
      BY <1>2, <1>3, <2>1, HeldFacts DEF FirstTag
    <3>. QED  BY <1>1, <3>1 DEF CredentialOK
  <2>. QED  BY <2>1
<1>5. /\ Vault[Held'[p].tag] = Held'[p].key
      /\ Held'[p].key \in issued
  BY <1>1, <1>2, TagFacts
     DEF Vault, VerifyAndStore, HolderBound, PublicKey, WalletInvariant,
         FlowInvariant, FlowsOK, FlowOK
<1>6. Vault' = Vault
  BY <1>1 DEF Vault
<1>7. Promise!Store(p)
  BY <1>1, <1>2, <1>3, <1>4, <1>5, <1>6 DEF Promise!Store, Promise!Held, Vault, Credential
<1>. QED  BY <1>7

\* Every step keeps the promise.
LEMMA PromiseStep ==
  ASSUME WalletInvariant, [Next]_walletVars
  PROVE  Promise!Next \/ UNCHANGED Promise!promiseVars
<1>1. WalletInvariant' /\ KeysKept
  BY NextLemma
<1>2. CASE UNCHANGED <<issued, pid, credentials>>
  BY <1>1, <1>2, GenerateKeysStep DEF WalletInvariant, Promise!Next
<1>3. ASSUME NEW f \in Flows, FlowStep(f) \/ UserStep(f)
      PROVE  Promise!Next
  <2>1. CASE ObtainCredential(f) \/ IssuedButLost(f)
    <3>1. UNCHANGED <<keychain, pid, credentials>> /\ issued' = issued \cup ProvenKeys(f)
      BY <2>1 DEF ObtainCredential, IssuedButLost, Reject, keyVars, storeVars
    <3>. QED  BY <3>1, IssueStep DEF Promise!Next
  <2>2. CASE VerifyAndStore(f)
    BY <1>1, <2>2, StoreStep DEF Promise!Next
  <2>3. CASE AfterAttestation(f) \/ \E slot \in Slots : StartFlow(f, slot)
    <3>1. UNCHANGED <<keychain, issued, pid>>
      BY <2>3 DEF AfterAttestation, StartFlow, keyVars
    <3>2. /\ credentials' \in {credentials, NoCredentials}
          /\ pc[f] \in {"idle", "attest"}
          /\ \A g \in Flows \ {f} : pc'[g] = pc[g]
      BY <2>3 DEF AfterAttestation, StartFlow, ReadStore, WalletInvariant,
                  FlowInvariant, IssuanceTypeOK
    <3>3. StoreKept
      BY <3>1, <3>2 DEF StoreKept, NoCredentials
    <3>. QED  BY <3>1, <3>3, ForgetStep DEF Promise!Next
  <2>4. CASE \/ AuthorizeEaa(f) \/ PreparePid(f) \/ AuthorizeAccess(f)
             \/ StepFails(f) \/ ContinuePid(f) \/ AbandonPid(f)
             \/ DeleteDpopKey(f) \/ GenerateDpopKey(f)
             \/ GenerateCredentialKeys(f) \/ FailCredentialKeys(f)
    <3>1. UNCHANGED <<issued, pid, credentials>>
      BY <2>4 DEF AuthorizeEaa, PreparePid, AuthorizeAccess, StepFails, ContinuePid,
                  AbandonPid, DeleteDpopKey, GenerateDpopKey,
                  GenerateCredentialKeys, FailCredentialKeys, Reject, storeVars
    <3>. QED  BY <1>2, <3>1, <1>1, GenerateKeysStep DEF WalletInvariant, Promise!Next
  <2>. QED  BY <1>3, <2>1, <2>2, <2>3, <2>4 DEF FlowStep, UserStep
<1>4. CASE Reset
  <2>1. StoreKept /\ UNCHANGED <<keychain, issued>>
    BY <1>4 DEF Reset, ResetStore, StoreKept, NoCredentials, flowVars, keyVars
  <2>. QED  BY <2>1, ForgetStep DEF Promise!Next
<1>5. CASE \/ UNCHANGED walletVars \/ \E r \in Requesters : AttestationStep(r)
           \/ UiRequestsAttestation \/ Expiry \/ Lifecycle \/ Restart
  <2>1. UNCHANGED <<issued, pid, credentials>>
    BY <1>5 DEF walletVars, AttestationStep, UiRequestsAttestation, Expiry, Lifecycle,
                Restart, AppRestart, storeVars
  <2>. QED  BY <1>2, <2>1
<1>. QED  BY <1>3, <1>4, <1>5 DEF Next

\* The initial wallet makes no promise it does not keep.
LEMMA PromiseInit == Init => Promise!Init
<1>. SUFFICES ASSUME Init PROVE Promise!Init
  OBVIOUS
<1>1. WalletInvariant
  BY InitLemma
<1>2. Vault \in [CredentialTags -> Key \cup {NoKey}]
  BY <1>1, TagFacts DEF Vault, WalletInvariant, KeyInvariant, KeychainTypeOK
<1>3. issued \subseteq {Vault[t] : t \in CredentialTags} \ {NoKey}
  BY <1>1, TagFacts, IssuanceAssumption
     DEF Init, IssuanceInit, Vault, PastPid, Key, WalletInvariant, FlowInvariant,
         IssuanceTypeOK
<1>4. Held \in [Places -> Credential \cup {NoCredential}]
  BY <1>1 DEF Held, Places, WalletInvariant, FlowInvariant, IssuanceTypeOK
<1>5. \A p \in Places : Held[p] # NoCredential =>
        Vault[Held[p].tag] = Held[p].key /\ Held[p].key \in issued
  BY <1>1, HeldFacts DEF CredentialOK, Vault, Credential
<1>. QED  BY <1>2, <1>3, <1>4, <1>5 DEF Promise!Init, Promise!Held, Vault, Credential

\* The wallet implements the specification of what it promises.
THEOREM Refinement == Spec => PromiseKept
<1>1. WalletInvariant /\ [Next]_walletVars => [Promise!Next]_Promise!promiseVars
  BY PromiseStep
<1>. QED  BY <1>1, PromiseInit, Invariance, PTL DEF Spec, PromiseKept, Promise!Spec

-----------------------------------------------------------------------------
(* What the store says of the instance *)

\* The provider knows the instances of the store, and that of every thunk it
\* has answered.
Registered ==
  /\ InstanceRegistered
  /\ \A r \in Requesters : task[r] = "sent" => provider[taskInstance[r]] # "unknown"

LEMMA RegisteredStutter ==
  ASSUME Registered, UNCHANGED instanceVars PROVE Registered'
BY DEF Registered, InstanceRegistered, instanceVars, lifeVars, taskVars

\* An instance that the provider knows it never forgets.
LEMMA RegisteredLifecycle ==
  ASSUME TaskInvariant, Registered, LifecycleStep \/ ResetStep
  PROVE  Registered'
<1>1. \A i \in Instances : provider[i] # "unknown" => provider'[i] # "unknown"
  BY DEF TaskInvariant, InstanceTypeOK, LifecycleStep, ResetStep, StartCreate, FinishCreate,
         FailCreate, StartRevoke, FailRevoke, Recreate, FinishRevoke, SwitchEnvironment
<1>2. /\ instance # NoInstance => instance \in Instances
      /\ wia # NoWia => wia.instance \in Instances
      /\ \A r \in Requesters : task[r] = "sent" => taskInstance[r] \in Instances
  BY DEF TaskInvariant, InstanceTypeOK, TasksOK, Attestation
<1>3. instance' # NoInstance => provider'[instance'] # "unknown"
  <2>1. CASE instance' \in {instance, NoInstance}
    BY <1>1, <1>2, <2>1 DEF Registered, InstanceRegistered
  <2>2. CASE \E i \in Instances : FinishCreate(i)
    BY <2>2 DEF FinishCreate, TaskInvariant, InstanceTypeOK
  <2>. QED  BY <2>1, <2>2
            DEF LifecycleStep, ResetStep, StartCreate, FailCreate, StartRevoke, FailRevoke,
                Recreate, FinishRevoke, SwitchEnvironment, ResetInstance
<1>4. wia' \in {wia, NoWia} /\ UNCHANGED taskVars
  BY DEF LifecycleStep, ResetStep, StartCreate, FinishCreate, FailCreate, StartRevoke,
         FailRevoke, Recreate, FinishRevoke, SwitchEnvironment, ResetInstance
<1>. QED  BY <1>1, <1>2, <1>3, <1>4 DEF Registered, InstanceRegistered, taskVars

LEMMA RegisteredTask ==
  ASSUME TaskInvariant, Registered, NEW r \in Requesters, TaskStep(r) \/ StartAttestation(r)
  PROVE  Registered'
<1>. USE DEF Registered, InstanceRegistered, TaskInvariant, InstanceTypeOK, lifeVars
<1>1. CASE StartAttestation(r) \/ DeleteWiaKey(r) \/ GenerateWiaKey(r) \/ RequestAttestation(r)
  BY <1>1 DEF StartAttestation, DeleteWiaKey, GenerateWiaKey, RequestAttestation
<1>2. CASE SendAttestationRequest(r)
  BY <1>2 DEF SendAttestationRequest
<1>3. CASE StoreAttestation(r)
  BY <1>3 DEF StoreAttestation, EndTask
<1>4. CASE RejectAttestation(r)
  BY <1>4 DEF RejectAttestation, EndTask
<1>. QED  BY <1>1, <1>2, <1>3, <1>4 DEF TaskStep

\* Whatever requests cross each other or lose their answers, the store names
\* only instances that the provider has registered.
THEOREM Registration == Spec => []InstanceRegistered
<1>1. Init => Registered
  BY InstanceAssumption
     DEF Init, InstanceInit, Registered, InstanceRegistered, Instances, NoInstance
<1>2. WalletInvariant /\ Registered /\ [Next]_walletVars => Registered'
  <2>. SUFFICES ASSUME WalletInvariant, Registered, [Next]_walletVars PROVE Registered'
    OBVIOUS
  <2>. USE DEF WalletInvariant
  <2>1. ASSUME NEW f \in Flows, FlowStep(f) \/ UserStep(f) PROVE Registered'
    <3>1. CASE UNCHANGED instanceVars
      BY <3>1, RegisteredStutter
    <3>2. CASE StartAttestation(f)
      BY <3>2, RegisteredTask DEF Requesters
    <3>. QED  BY <2>1, <3>1, <3>2
              DEF FlowStep, UserStep, StartFlow, AfterAttestation, AuthorizeEaa, PreparePid,
                  DeleteDpopKey, GenerateDpopKey, AuthorizeAccess, GenerateCredentialKeys,
                  FailCredentialKeys, ObtainCredential, IssuedButLost, VerifyAndStore,
                  StepFails, ContinuePid, AbandonPid
  <2>2. ASSUME NEW r \in Requesters, AttestationStep(r) PROVE Registered'
    BY <2>2, RegisteredTask DEF AttestationStep
  <2>3. CASE UiRequestsAttestation
    BY <2>3, RegisteredTask DEF UiRequestsAttestation, Requesters
  <2>4. CASE Lifecycle \/ Reset
    BY <2>4, RegisteredLifecycle DEF Lifecycle, Reset, ResetStore
  <2>5. CASE Expiry \/ Restart
    BY <2>5 DEF Expiry, ExpireAttestation, Restart, AppRestart, lifeVars, taskVars, Registered,
                InstanceRegistered
  <2>6. CASE UNCHANGED walletVars
    BY <2>6, RegisteredStutter DEF walletVars
  <2>. QED  BY <2>1, <2>2, <2>3, <2>4, <2>5, <2>6 DEF Next
<1>3. Registered => InstanceRegistered
  BY DEF Registered
<1>. QED  BY <1>1, <1>2, <1>3, Invariance, PTL DEF Spec
-----------------------------------------------------------------------------
(* The buttons that load *)

\* A flow for which a button may load: it asked for it and runs, or the
\* issuer granted it something else.
Loads(f, c) ==
  /\ f \notin PidFlows
  /\ requested[f] = c
  /\ pc[f] \in Waiting \/ (IssuerSubstitutes /\ pc[f] = "done")

\* The token of a flow is for what it asked for, unless the issuer substitutes.
GrantsOK ==
  ~IssuerSubstitutes =>
    \A f \in Flows \ PidFlows :
      pc[f] \in {"keys", "obtain", "verify"} => granted[f] = requested[f]

\* The parameters in the store are those of a flow that was started; only a
\* PID flow has the user log in.
LoginOK ==
  /\ flowParams # NoFlow => pc[flowParams] # "idle"
  /\ \A f \in Flows : pc[f] = "webview" => f \in PidFlows

LoadingInvariant == LoadingAwaited /\ GrantsOK /\ LoginOK

\* The method an outcome is attributed to is never an EAA configuration.
LEMMA ParamsMethodKind ==
  ASSUME FlowInvariant, LoginOK
  PROVE  ParamsMethod \in AuthMethods
BY IssuanceAssumption
   DEF ParamsMethod, LoginOK, FlowInvariant, IssuanceTypeOK, FlowsOK, FlowOK, SlotsOf

\* Only f moves: no button that waits for f alone goes on loading without it.
LEMMA LoadingFrame ==
  ASSUME LoadingAwaited, NEW f \in Flows,
         \A g \in Flows \ {f} : pc'[g] = pc[g] /\ requested'[g] = requested[g],
         \A c \in EaaConfigs : status'[c] = "loading" =>
           (status[c] = "loading" /\ ~Loads(f, c)) \/ Loads(f, c)'
  PROVE  LoadingAwaited'
<1> SUFFICES ASSUME NEW c \in EaaConfigs, status'[c] = "loading"
             PROVE  \E g \in Flows : Loads(g, c)'
  BY DEF LoadingAwaited, Loads
<1>1. CASE Loads(f, c)'
  BY <1>1
<1>2. CASE status[c] = "loading" /\ ~Loads(f, c)
  <2>1. PICK g \in Flows : Loads(g, c)
    BY <1>2 DEF LoadingAwaited, Loads
  <2>2. g # f
    BY <1>2, <2>1
  <2>3. Loads(g, c)'
    BY <2>1, <2>2 DEF Loads
  <2> QED
    BY <2>3
<1> QED
  BY <1>1, <1>2

\* A rejection clears the button of an EAA flow, and none for a PID flow.
LEMMA LoadingRejected ==
  ASSUME FlowInvariant, LoadingInvariant, NEW f \in Flows,
         pc[f] \in Waiting, Reject(f)
  PROVE  LoadingInvariant'
<1>1. /\ \A g \in Flows \ {f} : /\ pc'[g] = pc[g]
                                /\ requested'[g] = requested[g]
                                /\ granted'[g] = granted[g]
      /\ pc'[f] = "failed"
  BY DEF FlowInvariant, IssuanceTypeOK, Reject, DropLocals
<1>2. GrantsOK' /\ LoginOK'
  BY <1>1, IssuanceAssumption
     DEF LoadingInvariant, GrantsOK, LoginOK, FlowInvariant, IssuanceTypeOK, Reject
<1>3. ASSUME NEW c \in EaaConfigs, status'[c] = "loading"
      PROVE  status[c] = "loading" /\ ~Loads(f, c)
  <2>1. status' = [status EXCEPT ![RejectedSlot(f)] = "error"]
        /\ status \in [Slots -> {"initial", "loading", "done", "error"}]
        /\ c \in Slots
    BY DEF Reject, FlowInvariant, IssuanceTypeOK, Slots
  <2>2. status[c] = "loading" /\ c # RejectedSlot(f)
    BY <1>3, <2>1
  <2> QED
    BY <2>2 DEF RejectedSlot, Loads
<1> QED
  BY <1>1, <1>2, <1>3, LoadingFrame DEF LoadingInvariant

\* The synchronous start of a flow.
LEMMA LoadingRead ==
  ASSUME FlowInvariant, LoadingInvariant, NEW f \in Flows, NEW slot \in SlotsOf(f),
         NEW shown,
         \/ pc[f] = "idle" /\ shown = Pending(slot)
         \/ pc[f] = "attest" /\ requested[f] = slot /\ shown = status,
         ReadStore(f, slot, shown), requested' = [requested EXCEPT ![f] = slot],
         UNCHANGED granted
  PROVE  LoadingInvariant'
<1> USE IssuanceAssumption
<1>0. /\ status \in [Slots -> {"initial", "loading", "done", "error"}]
      /\ slot \in Slots /\ EaaConfigs \subseteq Slots
      /\ f \in PidFlows => slot \notin EaaConfigs
      /\ flowParams \in PidFlows \cup {NoFlow}
  BY DEF SlotsOf, Slots, FlowInvariant, IssuanceTypeOK
<1>s. shown \in {status, [status EXCEPT ![slot] = "loading"]}
  BY DEF Pending
<1>1. /\ \A g \in Flows \ {f} : pc'[g] = pc[g] /\ requested'[g] = requested[g]
      /\ pc'[f] \in {"authorize", "failed"} /\ requested'[f] = slot
  BY DEF FlowInvariant, IssuanceTypeOK, ReadStore
<1>2. GrantsOK' /\ LoginOK'
  BY <1>0, <1>1 DEF LoadingInvariant, GrantsOK, LoginOK, ReadStore
<1>3. ASSUME NEW c \in EaaConfigs, status'[c] = "loading"
      PROVE  (status[c] = "loading" /\ ~Loads(f, c)) \/ Loads(f, c)'
  <2>1. CASE wia # NoWia /\ (f \in PidFlows \/ pid # NoCredential)
    <3>1. pc'[f] = "authorize"
      BY <2>1 DEF ReadStore, FlowInvariant, IssuanceTypeOK
    <3>2. c = slot \/ (f \notin PidFlows /\ status[c] = "loading")
      BY <1>0, <1>s, <1>3, <2>1 DEF ReadStore
    <3>3. c = slot => f \notin PidFlows
      BY <1>0
    <3>4. c # slot => ~Loads(f, c)
      BY DEF Loads, Waiting
    <3> QED
      BY <1>1, <3>1, <3>2, <3>3, <3>4 DEF Loads, Waiting
  <2>2. CASE ~(wia # NoWia /\ (f \in PidFlows \/ pid # NoCredential))
    <3>1. status' = [shown EXCEPT ![slot] = "error"]
      BY <2>2 DEF ReadStore
    <3>2. c # slot /\ status[c] = "loading"
      BY <1>0, <1>s, <1>3, <3>1
    <3> QED
      BY <3>2 DEF Loads, Waiting
  <2> QED
    BY <2>1, <2>2
<1> QED
  BY <1>1, <1>2, <1>3, LoadingFrame DEF LoadingInvariant

\* A flow that moves on keeps its button loading.
LEMMA LoadingAdvances ==
  ASSUME LoadingInvariant, NEW f \in Flows, pc \in [Flows -> Waiting \cup {"idle", "done", "failed"}],
         NEW to \in Waiting, pc' = [pc EXCEPT ![f] = to], pc[f] \in Waiting,
         GrantsOK', LoginOK', requested' = requested,
         \A c \in EaaConfigs : status'[c] = status[c]
  PROVE  LoadingInvariant'
<1>1. \A g \in Flows \ {f} : pc'[g] = pc[g] /\ requested'[g] = requested[g]
  OBVIOUS
<1>2. pc'[f] \in Waiting
  OBVIOUS
<1>3. \A c \in EaaConfigs : Loads(f, c) => Loads(f, c)'
  BY <1>2 DEF Loads
<1> QED
  BY <1>1, <1>3, LoadingFrame DEF LoadingInvariant

\* A step that no flow takes.
LEMMA LoadingStutter ==
  ASSUME LoadingInvariant, UNCHANGED <<flowVars, storeVars>>
  PROVE  LoadingInvariant'
BY DEF LoadingInvariant, LoadingAwaited, GrantsOK, LoginOK, flowVars, storeVars

\* A credential clears the button of its configuration: that of the flow,
\* unless the issuer substituted it.
LEMMA LoadingStored ==
  ASSUME FlowInvariant, LoadingInvariant, NEW f \in Flows, VerifyAndStore(f)
  PROVE  LoadingInvariant'
<1>1. /\ pc[f] = "verify" /\ pc'[f] = "done" /\ requested' = requested
      /\ \A g \in Flows \ {f} : pc'[g] = pc[g] /\ granted'[g] = granted[g]
  BY DEF FlowInvariant, IssuanceTypeOK, VerifyAndStore, DropLocals
<1>2. flowParams' = NoFlow \/ flowParams' = flowParams
  BY DEF VerifyAndStore
<1>3. GrantsOK' /\ LoginOK'
  BY <1>1, <1>2, IssuanceAssumption
     DEF LoadingInvariant, GrantsOK, LoginOK, FlowInvariant, IssuanceTypeOK
<1>4. ASSUME NEW c \in EaaConfigs, status'[c] = "loading"
      PROVE  (status[c] = "loading" /\ ~Loads(f, c)) \/ Loads(f, c)'
  <2>1. status \in [Slots -> {"initial", "loading", "done", "error"}] /\ c \in Slots
    BY DEF FlowInvariant, IssuanceTypeOK, Slots
  <2>2. CASE f \in PidFlows
    <3>1. status' = [status EXCEPT ![ParamsMethod] = "done"]
      BY <2>2 DEF VerifyAndStore
    <3> QED
      BY <1>4, <2>1, <2>2, <3>1 DEF Loads
  <2>3. CASE f \notin PidFlows
    <3>1. status' = [status EXCEPT ![granted[f]] = "done"]
      BY <2>3 DEF VerifyAndStore
    <3>2. c # granted[f] /\ status[c] = "loading"
      BY <1>4, <2>1, <3>1
    <3>3. requested[f] = c => IssuerSubstitutes
      BY <1>1, <2>3, <3>2 DEF LoadingInvariant, GrantsOK
    <3> QED
      BY <1>1, <2>3, <3>2, <3>3 DEF Loads
  <2> QED
    BY <2>2, <2>3
<1> QED
  BY <1>1, <1>3, <1>4, LoadingFrame DEF LoadingInvariant

\* Every step.
LEMMA LoadingStep ==
  ASSUME WalletInvariant, LoadingInvariant, [Next]_walletVars
  PROVE  LoadingInvariant'
<1>0. FlowInvariant /\ pc \in [Flows -> Waiting \cup {"idle", "done", "failed"}]
  BY DEF WalletInvariant, FlowInvariant, IssuanceTypeOK
<1> USE DEF storeVars
<1>1. ASSUME NEW f \in Flows,
             AuthorizeEaa(f) \/ DeleteDpopKey(f) \/ GenerateDpopKey(f)
               \/ GenerateCredentialKeys(f) \/ ObtainCredential(f)
      PROVE  LoadingInvariant'
  <2>1. /\ UNCHANGED <<requested, granted, status, flowParams>>
        /\ pc[f] \in {"authorize", "delete", "generate", "keys", "obtain"}
        /\ \E to \in {"delete", "generate", "token", "obtain", "verify"} :
             /\ pc' = [pc EXCEPT ![f] = to]
             /\ to \in {"obtain", "verify"} => pc[f] \in {"keys", "obtain"}
    BY <1>1 DEF AuthorizeEaa, DeleteDpopKey, GenerateDpopKey, GenerateCredentialKeys,
                ObtainCredential
  <2>2. PICK to \in {"delete", "generate", "token", "obtain", "verify"} :
             /\ pc' = [pc EXCEPT ![f] = to]
             /\ to \in {"obtain", "verify"} => pc[f] \in {"keys", "obtain"}
    BY <2>1
  <2>3. GrantsOK'
    BY <1>0, <2>1, <2>2 DEF LoadingInvariant, GrantsOK
  <2>4. LoginOK'
    BY <1>0, <2>1, <2>2 DEF LoadingInvariant, LoginOK
  <2> QED
    BY <1>0, <2>1, <2>2, <2>3, <2>4, LoadingAdvances DEF Waiting
<1>2. ASSUME NEW f \in Flows, PreparePid(f)
      PROVE  LoadingInvariant'
  <2>1. /\ f \in PidFlows /\ pc[f] = "authorize" /\ pc' = [pc EXCEPT ![f] = "webview"]
        /\ flowParams' = f /\ UNCHANGED <<requested, granted, status>>
    BY <1>2 DEF PreparePid
  <2>2. GrantsOK' /\ LoginOK'
    BY <1>0, <2>1 DEF LoadingInvariant, GrantsOK, LoginOK
  <2> QED
    BY <1>0, <2>1, <2>2, LoadingAdvances DEF Waiting
<1>3. ASSUME NEW f \in Flows, AuthorizeAccess(f)
      PROVE  LoadingInvariant'
  <2>1. /\ pc[f] = "token" /\ pc' = [pc EXCEPT ![f] = "keys"]
        /\ UNCHANGED <<requested, status, flowParams>>
    BY <1>3 DEF AuthorizeAccess
  <2>2. PICK config \in Grantable(f) : granted' = [granted EXCEPT ![f] = config]
    BY <1>3 DEF AuthorizeAccess
  <2>3. ~IssuerSubstitutes /\ f \notin PidFlows => config = requested[f]
    BY <2>2 DEF Grantable
  <2>4. GrantsOK'
    BY <1>0, <2>1, <2>2, <2>3
       DEF LoadingInvariant, GrantsOK, FlowInvariant, IssuanceTypeOK
  <2>5. LoginOK'
    BY <1>0, <2>1 DEF LoadingInvariant, LoginOK
  <2> QED
    BY <1>0, <2>1, <2>4, <2>5, LoadingAdvances DEF Waiting
<1>4. ASSUME NEW f \in Flows, FailCredentialKeys(f) \/ IssuedButLost(f) \/ StepFails(f)
      PROVE  LoadingInvariant'
  BY <1>0, <1>4, LoadingRejected DEF FailCredentialKeys, IssuedButLost, StepFails, Waiting
<1>5. ASSUME NEW f \in Flows, VerifyAndStore(f)
      PROVE  LoadingInvariant'
  BY <1>0, <1>5, LoadingStored
<1>6. ASSUME NEW f \in Flows, AfterAttestation(f)
      PROVE  LoadingInvariant'
  <2>1. requested[f] \in SlotsOf(f) /\ requested' = [requested EXCEPT ![f] = requested[f]]
        /\ pc[f] = "attest" /\ ReadStore(f, requested[f], status) /\ UNCHANGED granted
    BY <1>0, <1>6 DEF AfterAttestation, FlowInvariant, IssuanceTypeOK, FlowsOK, FlowOK
  <2> QED
    BY <1>0, <2>1, LoadingRead
<1>7. ASSUME NEW f \in Flows, NEW slot \in Slots, StartFlow(f, slot)
      PROVE  LoadingInvariant'
  <2>1. /\ pc[f] = "idle" /\ slot \in SlotsOf(f) /\ UNCHANGED granted
        /\ requested' = [requested EXCEPT ![f] = slot]
    BY <1>7 DEF StartFlow
  <2>2. CASE ShouldRequestWia
    <3>1. /\ pc' = [pc EXCEPT ![f] = "attest"] /\ flowParams' = flowParams
          /\ status' = [status EXCEPT ![slot] = "loading"]
      BY <1>7, <2>2 DEF StartFlow, Pending
    <3>2. /\ \A g \in Flows \ {f} : pc'[g] = pc[g] /\ requested'[g] = requested[g]
          /\ pc'[f] = "attest" /\ requested'[f] = slot
      BY <1>0, <2>1, <3>1 DEF FlowInvariant, IssuanceTypeOK
    <3>3. GrantsOK' /\ LoginOK'
      BY <1>0, <2>1, <3>1, <3>2, IssuanceAssumption
         DEF LoadingInvariant, GrantsOK, LoginOK, FlowInvariant, IssuanceTypeOK
    <3>4. ASSUME NEW c \in EaaConfigs, status'[c] = "loading"
          PROVE  (status[c] = "loading" /\ ~Loads(f, c)) \/ Loads(f, c)'
      <4>1. c = slot => f \notin PidFlows
        BY <2>1, IssuanceAssumption DEF SlotsOf
      <4>2. c # slot => status[c] = "loading"
        BY <1>0, <3>1, <3>4 DEF FlowInvariant, IssuanceTypeOK, Slots
      <4> QED
        BY <2>1, <3>2, <4>1, <4>2 DEF Loads, Waiting
    <3> QED
      BY <3>2, <3>3, <3>4, LoadingFrame DEF LoadingInvariant
  <2>3. CASE ~ShouldRequestWia
    BY <1>0, <1>7, <2>1, <2>3, LoadingRead DEF StartFlow
  <2> QED
    BY <2>2, <2>3
<1>8. ASSUME NEW f \in Flows, ContinuePid(f)
      PROVE  LoadingInvariant'
  <2>1. CASE flowParams = NoFlow
    BY <1>0, <1>8, <2>1, LoadingRejected DEF ContinuePid, Waiting
  <2>2. CASE flowParams # NoFlow
    <3>1. /\ pc[f] = "webview" /\ pc' = [pc EXCEPT ![f] = "delete"]
          /\ UNCHANGED <<requested, granted, flowParams>>
          /\ status' = [status EXCEPT ![ParamsMethod] = "loading"]
      BY <1>8, <2>2 DEF ContinuePid
    <3>2. GrantsOK' /\ LoginOK'
      BY <1>0, <3>1 DEF LoadingInvariant, GrantsOK, LoginOK
    <3>3. \A c \in EaaConfigs : status'[c] = status[c]
      BY <1>0, <3>1, ParamsMethodKind, IssuanceAssumption
         DEF LoadingInvariant, FlowInvariant, IssuanceTypeOK, Slots
    <3> QED
      BY <1>0, <3>1, <3>2, <3>3, LoadingAdvances DEF Waiting
  <2> QED
    BY <2>1, <2>2
<1>9. ASSUME NEW f \in Flows, AbandonPid(f)
      PROVE  LoadingInvariant'
  <2>1. /\ pc[f] = "webview" /\ pc' = [pc EXCEPT ![f] = "failed"]
        /\ UNCHANGED <<requested, granted>>
        /\ flowParams' = NoFlow \/ flowParams' = flowParams
    BY <1>9 DEF AbandonPid
  <2>2. \A g \in Flows \ {f} : pc'[g] = pc[g] /\ requested'[g] = requested[g]
    BY <2>1
  <2>3. GrantsOK' /\ LoginOK'
    BY <1>0, <2>1 DEF LoadingInvariant, GrantsOK, LoginOK
  <2>4. f \in PidFlows /\ \A c \in EaaConfigs : status'[c] = status[c] \/ status'[c] = "initial"
    BY <1>0, <1>9, <2>1, IssuanceAssumption
       DEF AbandonPid, LoadingInvariant, LoginOK, FlowInvariant, IssuanceTypeOK, Slots
  <2> QED
    BY <2>2, <2>3, <2>4, LoadingFrame DEF LoadingInvariant, Loads
<1>10. CASE Restart
  <2>1. status' = NoStatus /\ flowParams' = NoFlow
        /\ \A f \in Flows : pc'[f] \notin Waiting
    BY <1>0, <1>10 DEF Restart, AppRestart, FlowInvariant, IssuanceTypeOK, Waiting
  <2> QED
    BY <2>1 DEF LoadingInvariant, LoadingAwaited, GrantsOK, LoginOK, NoStatus, Slots, Waiting
<1>11. CASE Reset
  <2>1. status' = NoStatus /\ flowParams' = NoFlow /\ UNCHANGED flowVars
    BY <1>11 DEF Reset, ResetStore
  <2> QED
    BY <2>1 DEF LoadingInvariant, LoadingAwaited, GrantsOK, LoginOK, NoStatus, Slots, flowVars
<1>12. CASE \/ \E r \in Requesters : AttestationStep(r)
            \/ UiRequestsAttestation \/ Expiry \/ Lifecycle \/ UNCHANGED walletVars
  <2>1. UNCHANGED <<flowVars, storeVars>>
    BY <1>12 DEF AttestationStep, UiRequestsAttestation, Expiry, Lifecycle, walletVars
  <2> QED
    BY <2>1, LoadingStutter
<1> QED
  BY <1>1, <1>2, <1>3, <1>4, <1>5, <1>6, <1>7, <1>8, <1>9, <1>10, <1>11, <1>12
     DEF Next, FlowStep, UserStep

\* No button loads without a flow that asked for its configuration and has not
\* ended, whatever flows outlive a reset of the store, unless the issuer
\* substitutes another configuration.
THEOREM AwaitsFlows == Spec => []LoadingAwaited
<1>1. Init => LoadingInvariant
  BY IssuanceAssumption
     DEF Init, IssuanceInit, LoadingInvariant, LoadingAwaited, GrantsOK, LoginOK, NoStatus, Slots
<1>2. WalletInvariant /\ LoadingInvariant /\ [Next]_walletVars => LoadingInvariant'
  BY LoadingStep
<1>3. LoadingInvariant => LoadingAwaited
  BY DEF LoadingInvariant
<1> QED
  BY <1>1, <1>2, <1>3, Invariance, PTL DEF Spec
=============================================================================
