--------------------------- MODULE CredentialStore ---------------------------
(***************************************************************************)
(* What the services of the app share: the clock, the credentials of the   *)
(* store and the resets.  A credential is a serial number, so that one     *)
(* that replaces another of its type is told apart from it.                *)
(***************************************************************************)
EXTENDS Integers, FiniteSets

CONSTANTS
  Types,        \* the places of the store
  MaxSerial,    \* bound on the credentials that are ever issued
  MaxTime,      \* bound on the clock
  Nothing       \* an empty place, a missing value

ASSUME StoreAssumption ==
  /\ MaxSerial \in Nat
  /\ MaxTime \in Nat
  /\ Nothing \notin Nat

Time    == 0 .. MaxTime
Serials == 1 .. MaxSerial

VARIABLES
  now,      \* the time
  held,     \* the credential in each place
  serials   \* how many credentials have been issued

storeVars == <<now, held, serials>>

StoreTypeOK ==
  /\ now \in Time
  /\ held \in [Types -> Serials \cup {Nothing}]
  /\ serials \in 0 .. MaxSerial

EmptyStore == [t \in Types |-> Nothing]

StoreInit ==
  /\ now = 0
  /\ held = EmptyStore
  /\ serials = 0

Tick ==
  /\ now < MaxTime
  /\ now' = now + 1
  /\ UNCHANGED <<held, serials>>

\* A credential is obtained; it replaces the one of its type.
StoreCredential(t) ==
  /\ serials < MaxSerial
  /\ serials' = serials + 1
  /\ held' = [held EXCEPT ![t] = serials + 1]
  /\ UNCHANGED now

\* The initial state of the slice is back.
ForgetCredentials ==
  /\ held' = EmptyStore
  /\ UNCHANGED <<now, serials>>
=============================================================================
