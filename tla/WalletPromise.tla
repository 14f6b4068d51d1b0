---------------------------- MODULE WalletPromise ----------------------------
(***************************************************************************)
(* What the wallet promises about the credentials in its store, whatever   *)
(* the flows, the failures and the resets.  A credential enters the store  *)
(* only if its key sits under the tag it is stored with, an issuer bound   *)
(* a credential to that key, and no other place of the store uses it; it   *)
(* then stays as it is until it is replaced or forgotten.                  *)
(***************************************************************************)
CONSTANTS
  Tag,      \* key tags of credentials
  Keys,     \* key pairs
  NoKey,
  Places,   \* places of the store
  Nothing   \* what an empty place holds

VARIABLES
  vault,    \* the key under each tag
  issued,   \* keys issuers have bound a credential to
  held      \* the credential in each place

promiseVars == <<vault, issued, held>>

Held == [tag : Tag, key : Keys]

\* A new key never replaces another.
GenerateKeys ==
  /\ vault' \in [Tag -> Keys \cup {NoKey}]
  /\ \A t \in Tag : vault[t] # NoKey => vault'[t] = vault[t]
  /\ UNCHANGED <<issued, held>>

\* An issuer binds credentials to keys the wallet has proved to hold.
Issue ==
  /\ issued \subseteq issued'
  /\ \A k \in issued' \ issued : \E t \in Tag : vault[t] = k
  /\ UNCHANGED <<vault, held>>

Store(p) ==
  /\ held'[p] \in Held
  /\ vault[held'[p].tag] = held'[p].key
  /\ held'[p].key \in issued
  /\ \A q \in Places \ {p} : held[q] # held'[p]
  /\ held' = [held EXCEPT ![p] = held'[p]]
  /\ UNCHANGED <<vault, issued>>

Forget ==
  /\ held' = [p \in Places |-> held'[p]]
  /\ \A p \in Places : held'[p] \in {held[p], Nothing}
  /\ UNCHANGED <<vault, issued>>

Init ==
  /\ vault \in [Tag -> Keys \cup {NoKey}]
  /\ issued \subseteq {vault[t] : t \in Tag} \ {NoKey}
  /\ held \in [Places -> Held \cup {Nothing}]
  /\ \A p \in Places : held[p] # Nothing =>
       vault[held[p].tag] = held[p].key /\ held[p].key \in issued

Next == GenerateKeys \/ Issue \/ Forget \/ \E p \in Places : Store(p)

Spec == Init /\ [][Next]_promiseVars
=============================================================================
