----------------------------- MODULE Federation -----------------------------
(***************************************************************************)
(* The federation as the wallet sees it: what its servers answer, and how  *)
(* that changes while the wallet is fetching.  An entity signs its own     *)
(* configuration; its superior signs a statement that lists the keys of    *)
(* the entity.  An entity replaces its key in three steps (publish, sign   *)
(* with, retire), and its superior updates the statement on its own time.  *)
(* The server of an entity may name others than itself and the subject it  *)
(* was asked about in what it signs: the wallet compares no names.         *)
(***************************************************************************)
EXTENDS Naturals

CONSTANTS
  Entities,
  Anchor,        \* the trust anchor
  Superior,      \* first authority hint of each entity, NoEntity for none
  NoEntity,
  Regimes,       \* which entities may replace their keys, and how; which
                 \* ones put any name in their documents
  MaxKeys        \* bound: keys of an entity in a behaviour

Generations == 1..MaxKeys

ASSUME FederationAssumption ==
  /\ Anchor \in Entities
  /\ NoEntity \notin Entities
  /\ Superior \in [Entities -> Entities \cup {NoEntity}]
  /\ Superior[Anchor] = NoEntity
  /\ Regimes \subseteq [rolling : SUBSET Entities, orderly : BOOLEAN,
                              misnaming : SUBSET Entities]
  /\ MaxKeys \in Nat \ {0}

VARIABLES
  regime,      \* chosen once: who rolls keys over; is it orderly, so that
               \* entities sign only with keys their superior lists and the
               \* anchor keeps its key?  who misnames?
  published,   \* keys in the configuration of each entity
  signer,      \* the key each entity signs with
  listed       \* keys of each entity in the statement of its superior

federationVars == <<regime, published, signer, listed>>

FederationTypeOK ==
  /\ regime \in Regimes
  /\ published \in [Entities -> SUBSET Generations]
  /\ signer \in [Entities -> Generations]
  /\ listed \in [Entities -> SUBSET Generations]

FederationInit ==
  /\ regime \in Regimes
  /\ published = [e \in Entities |-> {1}]
  /\ signer = [e \in Entities |-> 1]
  /\ listed = [e \in Entities |-> {1}]
-----------------------------------------------------------------------------
(* The documents *)

Key == Entities \X Generations

\* Both kinds carry the keys of their subject and name the key they are
\* signed with.
Document == [kind : {"configuration", "statement"}, iss : Entities,
             sub : Entities, keys : SUBSET Key, signedBy : Key]

KeysOf(e, generations) == {e} \X generations

\* The names that a document signed by e has where it should name x.
NamesBy(e, x) == IF e \in regime.misnaming THEN Entities ELSE {x}

\* The answers of the server of e...
Configurations(e) ==
  {[kind |-> "configuration", iss |-> i, sub |-> s,
    keys |-> KeysOf(e, published[e]), signedBy |-> <<e, signer[e]>>] :
     i, s \in NamesBy(e, e)}

\* ...and of its superior, asked for the statement about e.
Statements(superior, e) ==
  {[kind |-> "statement", iss |-> i, sub |-> s,
    keys |-> KeysOf(e, listed[e]), signedBy |-> <<superior, signer[superior]>>] :
     i \in NamesBy(superior, superior), s \in NamesBy(superior, e)}
-----------------------------------------------------------------------------
(* Key rollover *)

\* Whether anybody can verify what e signs with key n.  Nobody lists the
\* keys of the anchor: the wallet has them from the start.
Announced(e, n) == n \in listed[e]

\* An entity adds a key to its configuration...
PublishKey(e) ==
  /\ \E n \in Generations :
       /\ \A m \in published[e] : m < n
       /\ n - 1 \in published[e]
       /\ published' = [published EXCEPT ![e] = @ \cup {n}]
  /\ UNCHANGED <<regime, signer, listed>>

\* ...signs with it, in an emergency before its superior knows...
SwitchKey(e) ==
  /\ \E n \in published[e] :
       /\ n > signer[e]
       /\ regime.orderly => Announced(e, n)
       /\ signer' = [signer EXCEPT ![e] = n]
  /\ UNCHANGED <<regime, published, listed>>

\* ...and drops the others.
RetireKeys(e) ==
  /\ published[e] # {signer[e]}
  /\ published' = [published EXCEPT ![e] = {signer[e]}]
  /\ UNCHANGED <<regime, signer, listed>>

\* The superior lists what the entity now publishes, or excludes it.
Relist(e) ==
  /\ \/ listed' = [listed EXCEPT ![e] = published[e]]
     \/ ~regime.orderly /\ listed' = [listed EXCEPT ![e] = {}]
  /\ listed' # listed
  /\ UNCHANGED <<regime, published, signer>>

Rollover(e) ==
  /\ regime.orderly => e # Anchor
  /\ PublishKey(e) \/ SwitchKey(e) \/ RetireKeys(e)
=============================================================================
