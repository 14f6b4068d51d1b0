------------------------------ MODULE Trustmark ------------------------------
(***************************************************************************)
(* The trustmark of a credential: a short-lived JWT that the wallet signs  *)
(* with the key its instance attestation (WIA) attests.  The screen asks   *)
(* for it when it opens and drops it when it closes; the thunk reads the   *)
(* attestation from the store and looks the key up twice under its tag.    *)
(***************************************************************************)
EXTENDS CredentialStore

CONSTANTS
  Thunks,         \* the trustmark thunks that can be in flight at once
  WiaLifetime,    \* how long an attestation is valid
  MaxWiaKeys      \* bound on the keys generated under the tag

ASSUME TrustmarkAssumption ==
  /\ WiaLifetime \in Nat
  /\ MaxWiaKeys \in Nat \ {0}

WiaKeys == 1 .. MaxWiaKeys
Wias    == [key : WiaKeys, exp : 0 .. MaxTime + WiaLifetime]

VARIABLES
  wiaKey,         \* the key under WIA_KEYTAG
  wia,            \* store: the attestation
  open,           \* the type whose QR code screen is open
  thunk,          \* the thunks in flight
  trustmark,      \* store: the trustmark of each type
  trustmarkAsync  \* store: the progress of the thunk of each type

trustmarkVars == <<wiaKey, wia, open, thunk, trustmark, trustmarkAsync>>

NoThunk == [pc |-> "idle"]

TrustmarkTypeOK ==
  /\ wiaKey \in WiaKeys
  /\ wia \in Wias \cup {Nothing}
  /\ open \in Types \cup {Nothing}
  /\ \A k \in Thunks : thunk[k] = NoThunk
       \/ (thunk[k].pc \in {"key", "compare", "sign"} /\ thunk[k].wia \in Wias)
  /\ \A t \in Types : trustmark[t] # Nothing =>
       trustmark[t].wia \in Wias /\ trustmark[t].signer \in WiaKeys
  /\ trustmarkAsync \in [Types -> {"initial", "loading", "done", "error"}]

TrustmarkInit ==
  /\ wiaKey = 1
  /\ wia = [key |-> 1, exp |-> WiaLifetime]
  /\ open = Nothing
  /\ thunk = [k \in Thunks |-> NoThunk]
  /\ trustmark = [t \in Types |-> Nothing]
  /\ trustmarkAsync = [t \in Types |-> "initial"]
-----------------------------------------------------------------------------
SetAsync(t, s) == trustmarkAsync' = [trustmarkAsync EXCEPT ![t] = s]

Reject(k) ==
  /\ thunk' = [thunk EXCEPT ![k] = NoThunk]
  /\ SetAsync(thunk[k].type, "error")
  /\ UNCHANGED trustmark

\* Faulty variant: the thunk goes on without an attestation.
DispatchUnchecked(k, t) ==
  /\ thunk[k] = NoThunk
  /\ SetAsync(t, "loading")
  /\ thunk' = [thunk EXCEPT ![k] = [pc |-> "key", type |-> t, wia |-> wia]]

\* The thunk is dispatched and reads the attestation, if there is one.
Dispatch(k, t) ==
  /\ thunk[k] = NoThunk
  /\ IF wia = Nothing
     THEN SetAsync(t, "error") /\ UNCHANGED thunk
     ELSE /\ SetAsync(t, "loading")
          /\ thunk' = [thunk EXCEPT ![k] = [pc |-> "key", type |-> t, wia |-> wia]]

\* The QR code screen of a held credential opens.
OpenScreen(k, t) ==
  /\ open = Nothing
  /\ held[t] # Nothing
  /\ open' = t
  /\ Dispatch(k, t)
  /\ UNCHANGED <<storeVars, wiaKey, wia, trustmark>>

\* It closes: the trustmark is dropped, the thunk goes on.
CloseScreen ==
  /\ open # Nothing
  /\ trustmark' = [trustmark EXCEPT ![open] = Nothing]
  /\ open' = Nothing
  /\ UNCHANGED <<storeVars, wiaKey, wia, thunk, trustmarkAsync>>

\* A credential is stored; if its screen is open, the trustmark is dropped
\* and asked for again, though a thunk may be in flight.
CredentialStored(k, t) ==
  /\ StoreCredential(t)
  /\ IF open = t
     THEN /\ Dispatch(k, t)
          /\ trustmark' = [trustmark EXCEPT ![t] = Nothing]
     ELSE UNCHANGED <<thunk, trustmark, trustmarkAsync>>
  /\ UNCHANGED <<wiaKey, wia, open>>
-----------------------------------------------------------------------------
(* getCredentialTrustmark, of version 1.0.0 *)

\* The holder key is looked up, and the attestation must not have expired.
ReadHolderKey(k) ==
  /\ thunk[k].pc = "key"
  /\ IF thunk[k].wia.exp < now
     THEN Reject(k)
     ELSE /\ thunk' = [thunk EXCEPT ![k] =
                [pc |-> "compare", type |-> thunk[k].type,
                 wia |-> thunk[k].wia, key |-> wiaKey]]
          /\ UNCHANGED <<trustmark, trustmarkAsync>>
  /\ UNCHANGED <<storeVars, wiaKey, wia, open>>

\* Faulty variant: the thumbprints are not compared.
SameThumbprintSkipped(k) == TRUE

\* The thumbprint of the attested key is that of the holder key.
SameThumbprint(k) == thunk[k].wia.key = thunk[k].key

\* The key compared is the one of the lookup.  "replaced": the key was
\* regenerated after the lookup, before the comparison, which does not see it,
\* or between the comparison and the signature.
CompareKeys(k) ==
  /\ thunk[k].pc = "compare"
  /\ IF SameThumbprint(k)
     THEN /\ thunk' = [thunk EXCEPT ![k] =
                [pc |-> "sign", type |-> thunk[k].type, wia |-> thunk[k].wia,
                 replaced |-> wiaKey # thunk[k].key]]
          /\ UNCHANGED <<trustmark, trustmarkAsync>>
     ELSE Reject(k)
  /\ UNCHANGED <<storeVars, wiaKey, wia, open>>

\* The trustmark is signed with the key the tag has now, and stored.
SignTrustmark(k) ==
  /\ thunk[k].pc = "sign"
  /\ trustmark' = [trustmark EXCEPT ![thunk[k].type] =
       [wia |-> thunk[k].wia, signer |-> wiaKey,
        replaced |-> thunk[k].replaced]]
  /\ SetAsync(thunk[k].type, "done")
  /\ thunk' = [thunk EXCEPT ![k] = NoThunk]
  /\ UNCHANGED <<storeVars, wiaKey, wia, open>>

\* A native call fails; version 1.3.3 does not implement the function.
TrustmarkFails(k) ==
  /\ thunk[k].pc \in {"key", "compare", "sign"}
  /\ Reject(k)
  /\ UNCHANGED <<storeVars, wiaKey, wia, open>>
-----------------------------------------------------------------------------
\* An attestation thunk elsewhere regenerates the key ...
RegenerateWiaKey ==
  /\ wiaKey < MaxWiaKeys
  /\ wiaKey' = wiaKey + 1
  /\ thunk' = [k \in Thunks |-> IF thunk[k].pc = "sign"
                               THEN [thunk[k] EXCEPT !.replaced = TRUE]
                               ELSE thunk[k]]
  /\ UNCHANGED <<storeVars, wia, open, trustmark, trustmarkAsync>>

\* ... and later stores an attestation of it.
StoreWia ==
  /\ wia' = [key |-> wiaKey, exp |-> now + WiaLifetime]
  /\ wia' # wia
  /\ UNCHANGED <<storeVars, wiaKey, open, thunk, trustmark, trustmarkAsync>>

TrustmarkReset ==
  /\ ForgetCredentials
  /\ wia' = Nothing
  /\ trustmark' = [t \in Types |-> Nothing]
  /\ trustmarkAsync' = [t \in Types |-> "initial"]
  /\ UNCHANGED <<wiaKey, open, thunk>>

TrustmarkStep(k) ==
  ReadHolderKey(k) \/ CompareKeys(k) \/ SignTrustmark(k) \/ TrustmarkFails(k)

TrustmarkNext ==
  \/ \E k \in Thunks :
       \/ TrustmarkStep(k)
       \/ \E t \in Types : OpenScreen(k, t) \/ CredentialStored(k, t)
  \/ CloseScreen
  \/ RegenerateWiaKey
  \/ StoreWia
  \/ Tick /\ UNCHANGED trustmarkVars
  \/ TrustmarkReset
-----------------------------------------------------------------------------
\* A verifier can check the trustmark with the key of the attestation in it,
\* unless the key was regenerated between the lookup and the signature:
\* api/index.ts of the trustmark asks for the same key, and the code looks it
\* up once for each.
TrustmarkVerifiable ==
  \A t \in Types :
    trustmark[t] # Nothing /\ ~trustmark[t].replaced
      => trustmark[t].signer = trustmark[t].wia.key

\* A trustmark that loads has a thunk in flight that will end it, though the
\* screen may have been closed, the store reset, or the trustmark asked for
\* again meanwhile.
TrustmarkAwaited ==
  \A t \in Types : trustmarkAsync[t] = "loading" =>
    \E k \in Thunks : thunk[k].pc # "idle" /\ thunk[k].type = t
=============================================================================
