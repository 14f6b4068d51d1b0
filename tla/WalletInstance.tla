--------------------------- MODULE WalletInstance ---------------------------
(***************************************************************************)
(* The wallet instance and its attestation.  The app registers an instance *)
(* with the wallet provider, may revoke it, and asks the provider for a    *)
(* Wallet Instance Attestation (WIA) bound to the key under WIA_KEYTAG.    *)
(* The store keeps one instance and one attestation; the thunks that fill  *)
(* them run concurrently, each suspended at the awaits of the code.        *)
(***************************************************************************)
EXTENDS Keychain

CONSTANTS
  Ui,             \* the screen that requests an attestation on its own
  MaxInstances,   \* bound: instances registered in a behaviour
  MaxRevocations, \* bound: revocations of one instance in flight at a time
  MaxWiaKeys,     \* bound: key pairs generated under WIA_KEYTAG
  NoWia           \* no attestation in the store

ASSUME InstanceAssumption ==
  /\ Ui \notin Flows
  /\ MaxInstances \in Nat \ {0}
  /\ MaxRevocations \in Nat \ {0}
  /\ MaxWiaKeys \in Nat \ {0}
  /\ NoWia \notin [key : Key, instance : 1..MaxInstances]

Requesters == Flows \cup {Ui}
Instances  == 1..MaxInstances
NoInstance == 0
Attestation == [key : Key, instance : Instances]

VARIABLES
  instance,      \* store: key tag of the registered instance
  created,       \* hardware key tags generated so far
  creating,      \* instances of the create thunks in flight
  revoking,      \* how many revoke thunks are in flight for each instance
  lifeLoading,   \* store: asyncStatus.isLoading of a creation and a revocation
  provider,      \* wallet provider: what it knows of each instance
  wia,           \* store: the Wallet Instance Attestation
  expired,       \* keys whose attestation is past its exp
  task,          \* where each attestation thunk is suspended
  taskInstance,  \* instance whose integrity context the thunk uses
  taskKey        \* public key written in the attestation request

lifeVars == <<instance, created, creating, revoking, lifeLoading, provider>>
taskVars == <<task, taskInstance, taskKey>>
instanceVars == <<lifeVars, wia, expired, taskVars>>

InstanceTypeOK ==
  /\ instance \in Instances \cup {NoInstance}
  /\ created \in 0..MaxInstances
  /\ creating \subseteq Instances
  /\ revoking \in [Instances -> Nat]
  /\ lifeLoading \in [create : BOOLEAN, revoke : BOOLEAN]
  /\ provider \in [Instances -> {"unknown", "valid", "revoked"}]
  /\ wia \in Attestation \cup {NoWia}
  /\ expired \subseteq Key
  /\ task \in [Requesters -> {"idle", "delete", "generate", "request",
                           "sign", "sent"}]
  /\ taskInstance \in [Requesters -> Instances \cup {NoInstance}]
  /\ taskKey \in [Requesters -> Key \cup {NoKey}]

NoRevocation == [i \in Instances |-> 0]
NotLoading == [create |-> FALSE, revoke |-> FALSE]

\* A fresh install, or an app that has registered its instance before.
InstanceInit ==
  /\ instance \in {NoInstance, 1}
  /\ created = instance
  /\ creating = {}
  /\ revoking = NoRevocation
  /\ lifeLoading = NotLoading
  /\ provider = [i \in Instances |-> IF i = instance THEN "valid" ELSE "unknown"]
  /\ wia = NoWia
  /\ expired = {}
  /\ task = [r \in Requesters |-> "idle"]
  /\ taskInstance = [r \in Requesters |-> NoInstance]
  /\ taskKey = [r \in Requesters |-> NoKey]
-----------------------------------------------------------------------------
(* Wallet instance lifecycle *)

\* instanceReset and sessionReset: the instance and attestation slices return
\* to their initial state.  A thunk in flight is not told, and the buttons of
\* the instance stop loading while it runs.
ResetInstance ==
  /\ instance' = NoInstance
  /\ wia' = NoWia
  /\ lifeLoading' = NotLoading

\* createWalletInstanceThunk up to its request to the provider.  The button is
\* dead while it loads, which says nothing of a thunk that outlived a reset.
BeginCreate ==
  /\ ~lifeLoading.create
  /\ created < MaxInstances
  /\ created' = created + 1
  /\ creating' = creating \cup {created + 1}

StartCreate ==
  /\ instance = NoInstance
  /\ BeginCreate
  /\ lifeLoading' = [lifeLoading EXCEPT !.create = TRUE]
  /\ UNCHANGED <<instance, revoking, provider, wia, expired, taskVars>>

\* Over an instance the screen resets the store, then creates.  The tap and
\* the confirmation of its alert are one step.
Recreate ==
  /\ instance # NoInstance
  /\ BeginCreate
  /\ instance' = NoInstance
  /\ wia' = NoWia
  /\ lifeLoading' = [create |-> TRUE, revoke |-> FALSE]
  /\ UNCHANGED <<revoking, provider, expired, taskVars>>

\* A creation that settles, of which there may be several.
SettleCreate(i) ==
  /\ i \in creating
  /\ creating' = creating \ {i}
  /\ lifeLoading' = [lifeLoading EXCEPT !.create = FALSE]

\* The provider registers the instance and its tag is stored, over whatever
\* the store holds by now.
FinishCreate(i) ==
  /\ SettleCreate(i)
  /\ provider' = [provider EXCEPT ![i] = "valid"]
  /\ instance' = i
  /\ UNCHANGED <<created, revoking, wia, expired, taskVars>>

\* Faulty variant: the tag is stored although the creation failed.
FailCreateStores(i) ==
  /\ SettleCreate(i)
  /\ instance' = i
  /\ UNCHANGED <<created, revoking, provider, wia, expired, taskVars>>

\* The creation is refused, or its answer is lost after the registration.
FailCreate(i) ==
  /\ SettleCreate(i)
  /\ provider' \in {provider, [provider EXCEPT ![i] = "valid"]}
  /\ UNCHANGED <<instance, created, revoking, wia, expired, taskVars>>

\* revokeWalletInstanceThunk up to its request; without an instance it rejects
\* at once.
StartRevoke ==
  /\ instance # NoInstance
  /\ ~lifeLoading.revoke
  /\ revoking[instance] < MaxRevocations
  /\ revoking' = [revoking EXCEPT ![instance] = @ + 1]
  /\ lifeLoading' = [lifeLoading EXCEPT !.revoke = TRUE]
  /\ UNCHANGED <<instance, created, creating, provider, wia, expired, taskVars>>

SettleRevoke(i) ==
  /\ revoking[i] > 0
  /\ revoking' = [revoking EXCEPT ![i] = @ - 1]

\* The provider revokes the instance, then the whole store is reset, whatever
\* instance it holds by now and whatever else is in flight.
FinishRevoke(i) ==
  /\ SettleRevoke(i)
  /\ provider' = [provider EXCEPT ![i] = "revoked"]
  /\ ResetInstance
  /\ UNCHANGED <<created, creating, expired, taskVars>>

FailRevoke(i) ==
  /\ SettleRevoke(i)
  /\ lifeLoading' = [lifeLoading EXCEPT !.revoke = FALSE]
  /\ provider' \in {provider, [provider EXCEPT ![i] = "revoked"]}
  /\ UNCHANGED <<instance, created, creating, wia, expired, taskVars>>

\* The environment switch and the logout of the settings screen.
SwitchEnvironment ==
  /\ ResetInstance
  /\ UNCHANGED <<created, creating, revoking, provider, expired, taskVars>>
-----------------------------------------------------------------------------
(* getWalletInstanceAttestationThunk, one action per suspension *)

\* shouldRequestWalletInstanceAttestationSelector
ShouldRequestWia == wia = NoWia \/ wia.key \in expired

\* Up to the first await.  Without an instance the thunk rejects at once.
StartAttestation(r) ==
  /\ task[r] = "idle"
  /\ task' = [task EXCEPT ![r] = IF instance = NoInstance THEN "idle" ELSE "delete"]
  /\ taskInstance' = [taskInstance EXCEPT ![r] = instance]
  /\ UNCHANGED <<lifeVars, wia, expired, taskKey>>

\* First half of regenerateCryptoKey(WIA_KEYTAG).
DeleteWiaKey(r) ==
  /\ task[r] = "delete"
  /\ DeleteKeyIfExists(WIA_KEYTAG)
  /\ task' = [task EXCEPT ![r] = "generate"]
  /\ UNCHANGED <<lifeVars, wia, expired, taskInstance, taskKey>>

\* Second half.  A key put there meanwhile by another thunk is an error.
GenerateWiaKey(r) ==
  /\ task[r] = "generate"
  /\ generation[WIA_KEYTAG] < MaxWiaKeys
  /\ Generate({WIA_KEYTAG})
  /\ task' = [task EXCEPT ![r] = "request"]
  /\ UNCHANGED <<lifeVars, wia, expired, taskInstance, taskKey>>

\* The provider's nonce arrives and the request takes the public key.
RequestAttestation(r) ==
  /\ task[r] = "request"
  /\ PublicKey(WIA_KEYTAG) # NoKey
  /\ taskKey' = [taskKey EXCEPT ![r] = PublicKey(WIA_KEYTAG)]
  /\ task' = [task EXCEPT ![r] = "sign"]
  /\ UNCHANGED <<keyVars, lifeVars, wia, expired, taskInstance>>

\* The request is signed and sent.  The provider answers with an attestation
\* when it knows the instance and the signature is by the key in the request.
SendAttestationRequest(r) ==
  /\ task[r] = "sign"
  /\ PublicKey(WIA_KEYTAG) = taskKey[r]
  /\ provider[taskInstance[r]] = "valid"
  /\ task' = [task EXCEPT ![r] = "sent"]
  /\ UNCHANGED <<keyVars, lifeVars, wia, expired, taskInstance, taskKey>>

\* What the thunk holds is gone when it settles.
EndTask(r) ==
  /\ task' = [task EXCEPT ![r] = "idle"]
  /\ taskInstance' = [taskInstance EXCEPT ![r] = NoInstance]
  /\ taskKey' = [taskKey EXCEPT ![r] = NoKey]

\* Faulty variant: the key is deleted once the request is answered, as
\* withEphemeralKey would.
StoreAttestationEphemeral(r) ==
  /\ task[r] = "sent"
  /\ wia' = [key |-> taskKey[r], instance |-> taskInstance[r]]
  /\ DeleteKeyIfExists(WIA_KEYTAG)
  /\ EndTask(r)
  /\ UNCHANGED <<lifeVars, expired>>

\* The answer arrives and the fulfilled thunk stores it, over whatever the
\* store holds by then.
StoreAttestation(r) ==
  /\ task[r] = "sent"
  /\ wia' = [key |-> taskKey[r], instance |-> taskInstance[r]]
  /\ EndTask(r)
  /\ UNCHANGED <<keyVars, lifeVars, expired>>

\* Any await of the thunk may reject.  The reducer keeps the attestation the
\* store already had, and the key generated so far stays in the keychain.
RejectAttestation(r) ==
  /\ task[r] # "idle"
  /\ EndTask(r)
  /\ UNCHANGED <<keyVars, lifeVars, wia, expired>>

\* The stored attestation reaches its exp.
ExpireAttestation ==
  /\ wia # NoWia
  /\ wia.key \notin expired
  /\ expired' = expired \cup {wia.key}
  /\ UNCHANGED <<keyVars, lifeVars, wia, taskVars>>

TaskStep(r) ==
  \/ DeleteWiaKey(r)
  \/ GenerateWiaKey(r)
  \/ RequestAttestation(r)
  \/ SendAttestationRequest(r)
  \/ StoreAttestation(r)
  \/ RejectAttestation(r)

\* Steps of the lifecycle that leave the rest of the store alone...
LifecycleStep ==
  \/ StartCreate
  \/ StartRevoke
  \/ \E i \in Instances : FinishCreate(i) \/ FailCreate(i) \/ FailRevoke(i)

\* ...and steps that reset it.
ResetStep ==
  \/ Recreate
  \/ \E i \in Instances : FinishRevoke(i)
  \/ SwitchEnvironment
=============================================================================
