------------------------------ MODULE Keychain ------------------------------
(***************************************************************************)
(* The key store of the device.  The wallet never sees a private key: it   *)
(* names a key pair by a key tag, and every crypto context it builds looks *)
(* the tag up again each time it is asked for a public key or a signature. *)
(* Two tags are fixed and shared by all the flows of the app, the one of   *)
(* the wallet instance attestation and the one of DPoP; each credential    *)
(* gets tags of its own, random UUIDs.                                     *)
(***************************************************************************)
EXTENDS Naturals

CONSTANTS
  Flows,        \* the issuance attempts of a behaviour
  Past,         \* the attempt that provisioned the wallet before it
  BatchSize,    \* credentials requested by one attempt
  WIA_KEYTAG,   \* tag of the wallet instance attestation key
  DPOP_KEYTAG,  \* tag of the DPoP key
  NoKey         \* what a lookup of an absent tag finds

\* A UUID is modelled by the attempt that drew it and its place in the batch.
CredentialTags == (Flows \cup {Past}) \X (1..BatchSize)

Tags == {WIA_KEYTAG, DPOP_KEYTAG} \cup CredentialTags

\* The n-th key pair ever generated under a tag.
Key == Tags \X Nat

ASSUME KeychainAssumption ==
  /\ Past \notin Flows
  /\ BatchSize \in Nat \ {0}
  /\ WIA_KEYTAG # DPOP_KEYTAG
  /\ WIA_KEYTAG \notin CredentialTags
  /\ DPOP_KEYTAG \notin CredentialTags
  /\ NoKey \notin Key

VARIABLES
  keychain,    \* the key pair now stored under each tag
  generation   \* how many key pairs have been generated under each tag

keyVars == <<keychain, generation>>

KeychainTypeOK ==
  /\ keychain \in [Tags -> Key \cup {NoKey}]
  /\ generation \in [Tags -> Nat]

\* The tags a flow draws for its batch.
TagsOf(f) == {f} \X (1..BatchSize)

\* The key a crypto context for tag t uses at the moment it is called.
PublicKey(t) == keychain[t]

\* Faulty variant: the whole key store is cleared.
ClearKeychain(t) ==
  /\ keychain' = [u \in Tags |-> NoKey]
  /\ UNCHANGED generation

\* deleteKey with its PUBLIC_KEY_NOT_FOUND error ignored.
DeleteKeyIfExists(t) ==
  /\ keychain' = [keychain EXCEPT ![t] = NoKey]
  /\ UNCHANGED generation

\* generate, which refuses a tag that already holds a key, for a set of tags.
Generate(T) ==
  /\ \A t \in T : keychain[t] = NoKey
  /\ keychain' = [t \in Tags |-> IF t \in T THEN <<t, generation[t] + 1>>
                                            ELSE keychain[t]]
  /\ generation' = [t \in Tags |-> IF t \in T THEN generation[t] + 1
                                              ELSE generation[t]]
=============================================================================
