------------------------------ MODULE Services ------------------------------
(***************************************************************************)
(* The services on the credentials of the store: the status checks, the    *)
(* trustmark and the proximity screen, each with the store, its clock and  *)
(* its resets.  They share no state but the store, so a behaviour is one   *)
(* of one service, chosen at the beginning.                                *)
(***************************************************************************)
EXTENDS Status, Trustmark, Proximity

VARIABLE service   \* the service that is used

servicesVars ==
  <<storeVars, statusVars, trustmarkVars, proximityVars, service>>

Init ==
  /\ StoreInit /\ StatusInit /\ TrustmarkInit /\ ProximityInit
  /\ service \in {"status", "trustmark", "proximity"}
  /\ service # "status" => version = "1.0.0" /\ verdict = "INVALID"

UsesStatus    == service = "status" /\ StatusNext
                   /\ UNCHANGED <<trustmarkVars, proximityVars, service>>
UsesTrustmark == service = "trustmark" /\ TrustmarkNext
                   /\ UNCHANGED <<statusVars, proximityVars, service>>
UsesProximity == service = "proximity" /\ ProximityNext
                   /\ UNCHANGED <<statusVars, trustmarkVars, service>>

Next == UsesStatus \/ UsesTrustmark \/ UsesProximity

\* Every await of a check, a thunk or a task is eventually resolved or
\* rejected.  The user, the clock and the provider need not do anything.
Fairness ==
  /\ \A c \in Checks :
       WF_servicesVars(service = "status" /\ CheckStep(c)
                         /\ UNCHANGED <<trustmarkVars, proximityVars, service>>)
  /\ \A k \in Tasks :
       WF_servicesVars(service = "proximity" /\ ProximityTask(k)
                         /\ UNCHANGED <<statusVars, trustmarkVars, service>>)

Spec == Init /\ [][Next]_servicesVars /\ Fairness

\* Every variable has its type.
ServicesTypeOK == StatusTypeOK /\ TrustmarkTypeOK /\ ProximityTypeOK
=============================================================================
