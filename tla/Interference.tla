---------------------------- MODULE Interference ----------------------------
(***************************************************************************)
(* When can the shared keychain and the shared store get in the way of a   *)
(* flow?  The wallet with one history variable: the flows during whose     *)
(* run somebody else has taken a step.  Flows that merely wait at some     *)
(* await meanwhile disturb nobody.                                         *)
(***************************************************************************)
EXTENDS Wallet

VARIABLE disturbed

\* A step of f changes pc[f] or task[f]; an attestation that reaches its exp
\* is nobody's step.
Bystander(f) ==
  /\ pc[f] \in Waiting
  /\ pc'[f] = pc[f]
  /\ task'[f] = task[f]
  /\ expired' = expired

InterferenceInit == Init /\ disturbed = {}

InterferenceNext ==
  /\ Next
  /\ disturbed' = disturbed \cup {f \in Flows : Bystander(f)}

InterferenceSpec ==
  InterferenceInit /\ [][InterferenceNext]_<<walletVars, disturbed>>

\* The attestation a request of f carries: for a token, that of the params.
Presented(f) ==
  IF pc[f] = "token" THEN attestation[params[f]] ELSE attestation[f]

\* What in the shared state would make the next step of f fail.
ForeignParams(f) == pc[f] = "token" /\ params[f] # f
DpopKeyExists(f) == pc[f] = "generate" /\ PublicKey(DPOP_KEYTAG) # NoKey
DpopKeyLost(f) ==
  \/ pc[f] = "token" /\ PublicKey(DPOP_KEYTAG) = NoKey
  \/ pc[f] = "obtain" /\ PublicKey(DPOP_KEYTAG) # dpopKey[f]
ParamsLost(f) == pc[f] = "webview" /\ flowParams # f

\* A flow nobody disturbs never finds a DPoP key that is not its own, never
\* continues with the parameters of another login, and never loses its own:
\* whatever abandoned flows, failures and restarts left behind before it.
UndisturbedUnobstructed ==
  \A f \in Flows \ disturbed :
    /\ ~DpopKeyExists(f)
    /\ ~DpopKeyLost(f)
    /\ ~ForeignParams(f)
    /\ ~ParamsLost(f)

\* A flow nobody disturbs that had to ask for an attestation goes on with one
\* whose key it holds, or with the expired one it could not replace.
AttestationUsableWhenRead ==
  [][\A f \in Flows \ disturbed :
       pc[f] = "attest" /\ pc'[f] = "authorize" =>
         \/ attestation'[f].key = keychain[WIA_KEYTAG]
         \/ attestation'[f].key \in expired]_<<walletVars, disturbed>>

\* Once read, an attestation keeps its key in the keychain until the last
\* request of an undisturbed flow that presents it.
AttestationKeyKept ==
  [][\A f \in Flows \ disturbed' :
       pc[f] \in {"authorize", "delete", "generate", "token"} =>
         (keychain[WIA_KEYTAG] = Presented(f).key
            => keychain'[WIA_KEYTAG] = Presented(f).key)]_<<walletVars, disturbed>>
=============================================================================
