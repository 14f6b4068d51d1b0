-------------------------- MODULE TrustChainProofs --------------------------
(***************************************************************************)
(* Proofs about the trust chain, for every federation.  First what every   *)
(* chain looks like (PathInvariant), whatever the entities do with their   *)
(* keys and whatever names they use; then, for entities that roll their    *)
(* keys over in order, where the keys of the chain come from               *)
(* (KeyInvariant).                                                         *)
(***************************************************************************)
EXTENDS TrustChain, TLAPS

USE FederationAssumption, TrustChainAssumption

-----------------------------------------------------------------------------
(* The shape of the chain *)

SignerOf(doc) == doc.signedBy[1]
Honest(e) == e \notin regime.misnaming

\* What any document the federation serves is like.  The names are right if
\* its signer is honest, and then the keys are the subject's.
Genuine(doc) ==
  /\ doc \in Document
  /\ doc.kind = "configuration" => doc.keys \subseteq KeysOf(SignerOf(doc), Generations)
  /\ doc.kind = "statement" =>
       \E x \in Entities : /\ Superior[x] = SignerOf(doc)
                           /\ doc.keys \subseteq KeysOf(x, Generations)
                           /\ Honest(SignerOf(doc)) => doc.sub = x
  /\ Honest(SignerOf(doc)) => /\ doc.iss = SignerOf(doc)
                              /\ doc.kind = "configuration" => doc.sub = doc.iss

\* A configuration, statements, and whatever the chain has last.
Shape(docs) ==
  /\ \A i \in 1..Len(docs) : Genuine(docs[i])
  /\ docs # <<>> => docs[1].kind = "configuration"
  /\ \A i \in 2..(Len(docs) - 1) : docs[i].kind = "statement"

\* A document signed by the superior of who signed the one before it, or the
\* configuration of the same entity.
Follows(doc, before) ==
  /\ SignerOf(doc) = IF doc.kind = "statement" THEN Superior[SignerOf(before)]
                                               ELSE SignerOf(before)
  /\ Honest(SignerOf(doc)) => doc.sub = SignerOf(before)

\* The documents lead up from the relying party.
Path(docs) ==
  /\ Shape(docs)
  /\ docs # <<>> => SignerOf(docs[1]) = RelyingParty
  /\ \A i \in 2..Len(docs) : Follows(docs[i], docs[i - 1])

Complete(docs) ==
  docs # <<>> /\ docs[Len(docs)].kind = "configuration"

\* Where the chain ends at each step of gatherTrustChain.
GatherOK ==
  /\ pc \in {"start", "list"} => chain = <<>> /\ at = RelyingParty
  /\ pc = "configuration" =>
       \/ chain = <<>> /\ at = RelyingParty
       \/ /\ Len(chain) > 1
          /\ chain[Len(chain)].kind = "statement"
          /\ SignerOf(chain[Len(chain)]) = at
  /\ pc = "statement" =>
       /\ Superior[at] # NoEntity
       /\ chain # <<>>
       /\ SignerOf(chain[Len(chain)]) = at
       /\ Len(chain) > 1 => chain[Len(chain)].kind = "statement"
  /\ pc \in {"anchor", "built", "renew", "accepted"} => Complete(chain)
  /\ pc \in {"built", "renew"} => SignerOf(chain[Len(chain)]) = Anchor

\* The chain is a path until it is renewed by names that may be wrong.
PathOK ==
  /\ Shape(chain)
  /\ pc \notin {"accepted", "refused"} => Path(chain)

\* A renewed document stands for the one in its place: for the same entities
\* if nobody misnames any.
Replaces(new, old) ==
  /\ Genuine(new) /\ new.kind = old.kind
  /\ Honest(SignerOf(old)) => SignerOf(new) = SignerOf(old)
  /\ regime.misnaming = {} => new.iss = old.iss /\ new.sub = old.sub

RenewalOK ==
  \A i \in 1..Len(chain) : renewed[i] # NoDocument =>
    /\ pc \in {"renew", "accepted", "refused"}
    /\ pc = "renew" => Replaces(renewed[i], chain[i])

PathInvariant ==
  /\ TrustTypeOK
  /\ GatherOK
  /\ PathOK
  /\ RenewalOK
  /\ AcceptedChainIsPath
-----------------------------------------------------------------------------
(* Where the keys come from *)

\* In an orderly federation an entity signs with a key it publishes and its
\* superior lists; the anchor keeps the one key it has.
SignersOK ==
  /\ \A e \in Entities : signer[e] \in published[e] /\ signer[e] \in listed[e]
  /\ published[Anchor] = {1} /\ listed[Anchor] = {1} /\ signer[Anchor] = 1
  /\ pc \notin {"start", "refused"} => anchorKeys = {1}
  /\ anchorFirst = 1

\* A document signed with a key that the superior of its signer lists.
Listed(doc) == doc.signedBy[2] \in listed[SignerOf(doc)]

\* Every document but the last is signed by a key of the next one.
Signed(docs) ==
  \A i \in 1..(Len(docs) - 1) : docs[i].signedBy \in docs[i + 1].keys

\* The chain gathered so far verifies, and its last signature will.
GatheredOK ==
  relisted # "dropped" /\ pc \in {"configuration", "statement", "anchor", "built"} =>
    /\ chain # <<>> => Listed(chain[Len(chain)])
    /\ chain # <<>> /\ (pc \in {"anchor", "built"} => SignerOf(chain[Len(chain)]) = Anchor) =>
         Signed(chain)

\* The documents renewed so far carry the keys that are listed now.
RenewedOK ==
  relisted = "no" /\ pc = "renew" /\ regime.misnaming = {} =>
    \A i \in 1..Len(chain) : renewed[i] # NoDocument =>
      /\ Listed(renewed[i])
      /\ renewed[i].kind = "statement" =>
           renewed[i].keys = KeysOf(renewed[i].sub, listed[renewed[i].sub])
      /\ SignerOf(renewed[i]) = Anchor /\ renewed[i].kind = "configuration" =>
           renewed[i].keys = KeysOf(Anchor, {1})

KeyInvariant == SignersOK /\ GatheredOK /\ RenewedOK
-----------------------------------------------------------------------------
(* The documents that are served *)

LEMMA ConfigurationGenuine ==
  ASSUME FederationTypeOK, NEW e \in Entities, NEW doc \in Configurations(e)
  PROVE  /\ Genuine(doc) /\ SignerOf(doc) = e /\ doc.kind = "configuration"
         /\ doc.signedBy = <<e, signer[e]>> /\ doc.keys = KeysOf(e, published[e])
         /\ Honest(e) => doc.iss = e /\ doc.sub = e
<1>1. PICK i \in NamesBy(e, e), s \in NamesBy(e, e) :
        doc = [kind |-> "configuration", iss |-> i, sub |-> s,
               keys |-> KeysOf(e, published[e]), signedBy |-> <<e, signer[e]>>]
  BY DEF Configurations
<1>2. i \in Entities /\ s \in Entities /\ (Honest(e) => i = e /\ s = e)
  BY DEF NamesBy, Honest
<1>3. published[e] \subseteq Generations /\ signer[e] \in Generations
  BY DEF FederationTypeOK
<1>4. KeysOf(e, published[e]) \in SUBSET Key /\ <<e, signer[e]>> \in Key
      /\ KeysOf(e, published[e]) \subseteq KeysOf(e, Generations)
  BY <1>3 DEF KeysOf, Key
<1>5. doc \in Document
  BY <1>1, <1>2, <1>4 DEF Document
<1> QED
  BY <1>1, <1>2, <1>4, <1>5 DEF Genuine, SignerOf

LEMMA StatementGenuine ==
  ASSUME FederationTypeOK, NEW e \in Entities, Superior[e] \in Entities,
         NEW doc \in Statements(Superior[e], e)
  PROVE  /\ Genuine(doc) /\ SignerOf(doc) = Superior[e] /\ doc.kind = "statement"
         /\ doc.signedBy = <<Superior[e], signer[Superior[e]]>>
         /\ doc.keys = KeysOf(e, listed[e])
         /\ Honest(Superior[e]) => doc.iss = Superior[e] /\ doc.sub = e
<1>1. PICK i \in NamesBy(Superior[e], Superior[e]), s \in NamesBy(Superior[e], e) :
        doc = [kind |-> "statement", iss |-> i, sub |-> s,
               keys |-> KeysOf(e, listed[e]),
               signedBy |-> <<Superior[e], signer[Superior[e]]>>]
  BY DEF Statements
<1>2. i \in Entities /\ s \in Entities /\ (Honest(Superior[e]) => i = Superior[e] /\ s = e)
  BY DEF NamesBy, Honest
<1>3. listed[e] \subseteq Generations /\ signer[Superior[e]] \in Generations
  BY DEF FederationTypeOK
<1>4. KeysOf(e, listed[e]) \in SUBSET Key /\ <<Superior[e], signer[Superior[e]]>> \in Key
      /\ KeysOf(e, listed[e]) \subseteq KeysOf(e, Generations)
  BY <1>3 DEF KeysOf, Key
<1>5. doc \in Document
  BY <1>1, <1>2, <1>4 DEF Document
<1> QED
  BY <1>1, <1>2, <1>4, <1>5 DEF Genuine, SignerOf

\* A genuine document is replaced by one its issuer, as it names it, signs.
LEMMA FreshServed ==
  ASSUME FederationTypeOK, NEW i \in 1..Len(chain), Genuine(chain[i]), Renew(i),
         NEW new \in Fresh(chain[i])
  PROVE  /\ Genuine(new) /\ new.kind = chain[i].kind
         /\ new.signedBy = <<chain[i].iss, signer[chain[i].iss]>>
         /\ new.kind = "configuration" =>
              /\ new.keys = KeysOf(chain[i].iss, published[chain[i].iss])
              /\ Honest(chain[i].iss) => new.iss = chain[i].iss /\ new.sub = chain[i].iss
         /\ new.kind = "statement" =>
              /\ new.keys = KeysOf(chain[i].sub, listed[chain[i].sub])
              /\ Honest(chain[i].iss) => new.iss = chain[i].iss /\ new.sub = chain[i].sub
<1> DEFINE doc == chain[i]
<1>1. doc \in Document /\ doc.iss \in Entities /\ doc.sub \in Entities
      /\ doc.kind \in {"configuration", "statement"}
  BY DEF Genuine, Document
<1>2. CASE doc.kind = "configuration"
  <2>1. new \in Configurations(doc.iss)
    BY <1>2 DEF Fresh
  <2> QED
    BY <1>1, <1>2, <2>1, ConfigurationGenuine
<1>3. CASE doc.kind = "statement"
  <2>1. Superior[doc.sub] = doc.iss /\ new \in Statements(Superior[doc.sub], doc.sub)
    BY <1>3 DEF Fresh, Renew
  <2> QED
    BY <1>1, <1>3, <2>1, StatementGenuine
<1> QED
  BY <1>1, <1>2, <1>3

LEMMA FreshReplaces ==
  ASSUME FederationTypeOK, NEW i \in 1..Len(chain), Genuine(chain[i]), Renew(i),
         NEW new \in Fresh(chain[i])
  PROVE  Replaces(new, chain[i])
<1>1. /\ Genuine(new) /\ new.kind = chain[i].kind /\ SignerOf(new) = chain[i].iss
      /\ chain[i].kind \in {"configuration", "statement"}
  BY FreshServed DEF SignerOf, Genuine, Document
<1>2. Honest(SignerOf(chain[i])) => SignerOf(new) = SignerOf(chain[i])
  BY <1>1 DEF Genuine
<1>3. ASSUME regime.misnaming = {} PROVE new.iss = chain[i].iss /\ new.sub = chain[i].sub
  <2>1. Honest(chain[i].iss) /\ Honest(SignerOf(chain[i]))
    BY <1>3 DEF Honest
  <2>2. chain[i].kind = "configuration" => chain[i].sub = chain[i].iss
    BY <2>1 DEF Genuine
  <2> QED
    BY <1>1, <2>1, <2>2, FreshServed
<1> QED
  BY <1>1, <1>2, <1>3 DEF Replaces

\* A chain is extended by a document that follows its last one.
LEMMA PathExtends ==
  ASSUME NEW docs \in Seq(Document), Path(docs), docs # <<>>,
         NEW doc, Genuine(doc), Follows(doc, docs[Len(docs)]),
         Len(docs) > 1 => docs[Len(docs)].kind = "statement"
  PROVE  Path(Append(docs, doc))
<1> DEFINE new == Append(docs, doc)
<1>1. doc \in Document
  BY DEF Genuine
<1>2. Len(docs) \in Nat \ {0} /\ Len(new) = Len(docs) + 1
  BY <1>1
<1>3. new[Len(new)] = doc /\ \A i \in 1..Len(docs) : new[i] = docs[i]
  BY <1>1, <1>2
<1>4. \A i \in 1..Len(new) : Genuine(new[i])
  BY <1>2, <1>3 DEF Path, Shape
<1>5. new[1].kind = "configuration" /\ SignerOf(new[1]) = RelyingParty
  BY <1>2, <1>3 DEF Path, Shape
<1>6. \A i \in 2..Len(new) : Follows(new[i], new[i - 1])
  <2> SUFFICES ASSUME NEW i \in 2..Len(new)
               PROVE  Follows(new[i], new[i - 1])
    OBVIOUS
  <2>1. CASE i = Len(new)
    BY <1>2, <1>3, <2>1
  <2>2. CASE i \in 2..Len(docs)
    <3>1. new[i] = docs[i] /\ new[i - 1] = docs[i - 1]
      BY <1>2, <1>3, <2>2
    <3> QED
      BY <2>2, <3>1 DEF Path
  <2> QED
    BY <1>2, <2>1, <2>2
<1>7. \A i \in 2..(Len(new) - 1) : new[i].kind = "statement"
  <2> SUFFICES ASSUME NEW i \in 2..Len(docs)
               PROVE  new[i].kind = "statement"
    BY <1>2
  <2>1. CASE i = Len(docs)
    BY <1>2, <1>3, <2>1
  <2>2. CASE i \in 2..(Len(docs) - 1)
    BY <1>2, <1>3, <2>2 DEF Path, Shape
  <2> QED
    BY <1>2, <2>1, <2>2
<1> HIDE DEF new
<1>8. Shape(new)
  BY <1>4, <1>5, <1>7 DEF Shape
<1>9. Path(new)
  BY <1>5, <1>6, <1>8 DEF Path
<1> QED
  BY <1>9 DEF new

LEMMA PathStarts ==
  ASSUME NEW doc, Genuine(doc), doc.kind = "configuration", SignerOf(doc) = RelyingParty
  PROVE  Path(<<doc>>)
BY DEF Path, Shape

\* The signatures of a valid chain lead up to the anchor: each document carries
\* keys of one entity only, who signed the one before it.
LEMMA ValidLeads ==
  ASSUME NEW docs \in Seq(Document), Shape(docs), Complete(docs), Valid(docs)
  PROVE  LET n == Len(docs) IN
         /\ SignerOf(docs[n]) = Anchor
         /\ \A i \in 2..(n - 1) : SignerOf(docs[i]) = Superior[SignerOf(docs[i - 1])]
         /\ \A i \in 1..n : Honest(SignerOf(docs[i])) =>
              /\ docs[i].iss = SignerOf(docs[i])
              /\ docs[i].sub = IF i = 1 THEN SignerOf(docs[1]) ELSE SignerOf(docs[i - 1])
<1> DEFINE n == Len(docs)
<1>1. n \in Nat \ {0} /\ \A i \in 1..n : Genuine(docs[i]) /\ docs[i] \in Document
  BY DEF Complete, Shape
<1>2. SignerOf(docs[n]) = Anchor
  <2>1. docs[n].signedBy \in KeysOf(Anchor, anchorKeys)
    BY <1>1 DEF Valid, SelectKeys
  <2> QED
    BY <2>1 DEF KeysOf, SignerOf
<1>3. \A i \in 2..n : docs[i - 1].signedBy \in docs[i].keys
  <2> SUFFICES ASSUME NEW i \in 2..n PROVE docs[i - 1].signedBy \in docs[i].keys
    OBVIOUS
  <2>1. i - 1 \in 1..n /\ i - 1 # n /\ (i - 1) + 1 = i
    BY <1>1
  <2> QED
    BY <2>1 DEF Valid, SelectKeys
<1>4. ASSUME NEW i \in 2..n, docs[i].kind = "statement"
      PROVE  /\ SignerOf(docs[i]) = Superior[SignerOf(docs[i - 1])]
             /\ Honest(SignerOf(docs[i])) => docs[i].sub = SignerOf(docs[i - 1])
  <2>1. PICK x \in Entities : /\ Superior[x] = SignerOf(docs[i])
                              /\ docs[i].keys \subseteq KeysOf(x, Generations)
                              /\ Honest(SignerOf(docs[i])) => docs[i].sub = x
    BY <1>1, <1>4 DEF Genuine
  <2>2. docs[i - 1].signedBy \in KeysOf(x, Generations)
    BY <1>3, <2>1
  <2>3. SignerOf(docs[i - 1]) = x
    BY <2>2 DEF KeysOf, SignerOf
  <2> QED
    BY <2>1, <2>3
<1>5. ASSUME NEW i \in 2..n, docs[i].kind = "configuration"
      PROVE  SignerOf(docs[i - 1]) = SignerOf(docs[i])
  <2>1. docs[i].keys \subseteq KeysOf(SignerOf(docs[i]), Generations)
    BY <1>1, <1>5 DEF Genuine
  <2>2. docs[i - 1].signedBy \in KeysOf(SignerOf(docs[i]), Generations)
    BY <1>3, <2>1
  <2> QED
    BY <2>2 DEF KeysOf, SignerOf
<1>6. \A i \in 2..(n - 1) : SignerOf(docs[i]) = Superior[SignerOf(docs[i - 1])]
  <2>1. \A i \in 2..(n - 1) : i \in 2..n /\ docs[i].kind = "statement"
    BY <1>1 DEF Shape
  <2> QED
    BY <1>4, <2>1
<1>7. ASSUME NEW i \in 1..n, Honest(SignerOf(docs[i]))
      PROVE  /\ docs[i].iss = SignerOf(docs[i])
             /\ docs[i].sub = IF i = 1 THEN SignerOf(docs[1]) ELSE SignerOf(docs[i - 1])
  <2>1. /\ docs[i].iss = SignerOf(docs[i])
        /\ docs[i].kind = "configuration" => docs[i].sub = SignerOf(docs[i])
        /\ docs[i].kind \in {"configuration", "statement"}
    BY <1>1, <1>7 DEF Genuine, Document
  <2>2. CASE i = 1
    BY <2>1, <2>2 DEF Shape, Complete
  <2>3. CASE i \in 2..n
    BY <1>4, <1>5, <1>7, <2>1, <2>3
  <2> QED
    BY <1>1, <2>1, <2>2, <2>3
<1> QED
  BY <1>2, <1>6, <1>7

-----------------------------------------------------------------------------
(* The chain has its shape in every reachable state *)

\* The entities keep the types of the federation.
LEMMA FederationTyped ==
  ASSUME FederationTypeOK, FederationStep
  PROVE  FederationTypeOK'
<1>1. CASE \E e \in regime.rolling : Rollover(e)
  BY <1>1 DEF FederationTypeOK, Rollover, PublishKey, SwitchKey, RetireKeys
<1>2. CASE \E e \in regime.rolling \ {Anchor} : StatementChanges(e)
  BY <1>2 DEF FederationTypeOK, StatementChanges, Relist
<1> QED
  BY <1>1, <1>2 DEF FederationStep

\* Who names whom is chosen once.
LEMMA RegimeFixed == [Next]_trustVars => UNCHANGED regime
BY DEF Next, trustVars, federationVars, FederationStep, StatementChanges, Relist,
       Rollover, PublishKey, SwitchKey, RetireKeys

LEMMA PathInit == Init => PathInvariant
BY DEF Init, FederationInit, PathInvariant, TrustTypeOK, FederationTypeOK, PathOK, Path,
       Shape, GatherOK, RenewalOK, Fetching, Generations, AcceptedChainIsPath

LEMMA LastDocument ==
  ASSUME TrustTypeOK, chain # <<>>
  PROVE  Len(chain) \in 1..Len(chain) /\ chain[Len(chain)] \in Document
<1>1. chain \in Seq(Document)
  BY DEF TrustTypeOK
<1> QED
  BY <1>1

\* The steps that leave the chain and the place of the gathering alone.
LEMMA PathKept ==
  ASSUME PathInvariant, UNCHANGED <<federationVars, at, chain, renewed, renewOnFail>>,
         \/ FetchAnchor \/ CheckFederationList \/ VerifyAnchor \/ Validate \/ FetchFails
  PROVE  PathInvariant'
<1> USE DEF PathInvariant
<1>1. FederationTypeOK' /\ UNCHANGED regime
  BY DEF TrustTypeOK, FederationTypeOK, federationVars
<1>2. TrustTypeOK'
  BY <1>1 DEF TrustTypeOK, FederationTypeOK, Fetching, FetchAnchor, CheckFederationList,
              VerifyAnchor, Validate, FetchFails, Refuse
<1>3. PathOK'
  <2>1. Shape(chain)'
    BY <1>1 DEF PathOK, Shape, Genuine, Honest
  <2>2. pc \notin {"accepted", "refused"}
    BY DEF FetchAnchor, CheckFederationList, VerifyAnchor, Validate, FetchFails, Fetching
  <2> QED
    BY <1>1, <2>1, <2>2 DEF PathOK, Path, Follows, Honest
<1>4. GatherOK'
  <2>1. CASE FetchAnchor \/ CheckFederationList \/ FetchFails
    BY <2>1 DEF GatherOK, FetchAnchor, CheckFederationList, FetchFails, Refuse
  <2>2. CASE VerifyAnchor
    <3>1. CASE pc' = "refused"
      BY <3>1 DEF GatherOK
    <3>2. CASE pc' = "built"
      <4>1. chain # <<>> /\ chain[Len(chain)].signedBy = <<Anchor, anchorFirst>>
        BY <2>2, <3>2 DEF VerifyAnchor, Refuse, GatherOK, Complete
      <4> QED
        BY <2>2, <3>2, <4>1 DEF GatherOK, VerifyAnchor, SignerOf, Complete
    <3> QED
      BY <2>2, <3>1, <3>2 DEF VerifyAnchor, Refuse
  <2>3. CASE Validate
    BY <2>3 DEF GatherOK, Validate, Complete
  <2> QED
    BY <2>1, <2>2, <2>3
<1>5. RenewalOK'
  BY DEF RenewalOK, FetchAnchor, CheckFederationList, VerifyAnchor, Validate,
         FetchFails, Refuse, Fetching
<1>6. AcceptedChainIsPath'
  <2>1. CASE pc' # "accepted"
    BY <2>1 DEF AcceptedChainIsPath
  <2>2. CASE pc' = "accepted"
    <3>1. Validate /\ Valid(chain) /\ pc = "built"
      BY <2>2 DEF FetchAnchor, CheckFederationList, VerifyAnchor, Validate, FetchFails, Refuse
    <3>2. chain \in Seq(Document) /\ Len(chain) \in Nat \ {0} /\ Complete(chain) /\ Path(chain)
      BY <3>1 DEF TrustTypeOK, GatherOK, Complete, PathOK
    <3>3. SignerOf(chain[1]) = RelyingParty /\ Shape(chain)
          /\ chain[1].kind = "configuration" /\ chain[Len(chain)].kind = "configuration"
          /\ \A i \in 2..(Len(chain) - 1) : chain[i].kind = "statement"
      BY <3>2 DEF Path, Shape, Complete
    <3> QED
      BY <1>1, <3>1, <3>2, <3>3, ValidLeads DEF AcceptedChainIsPath, By, SignerOf, Honest
  <2> QED
    BY <2>1, <2>2
<1> QED
  BY <1>1, <1>2, <1>3, <1>4, <1>5, <1>6

\* A document is added to the chain.
LEMMA PathGathers ==
  ASSUME PathInvariant, UNCHANGED federationVars,
         GatherConfiguration \/ GatherStatement
  PROVE  PathInvariant'
<1> USE DEF PathInvariant
<1>1. FederationTypeOK /\ FederationTypeOK' /\ UNCHANGED regime
  BY DEF TrustTypeOK, FederationTypeOK, federationVars
<1>2. at \in Entities /\ Superior[at] \in Entities \cup {NoEntity}
  BY DEF TrustTypeOK
<1>3. chain \in Seq(Document) /\ Len(chain) \in Nat
  BY DEF TrustTypeOK
<1>4. Path(chain)
  BY DEF PathOK, GatherConfiguration, GatherStatement
<1>5. ASSUME Path(chain') PROVE PathOK'
  <2>1. Shape(chain') /\ \A doc : Genuine(doc) => Genuine(doc)'
    BY <1>1, <1>5 DEF Path, Genuine, Honest
  <2>2. Shape(chain)'
    BY <2>1 DEF Shape
  <2> QED
    BY <1>1, <1>5, <2>2 DEF PathOK, Path, Follows, Honest
<1>6. AcceptedChainIsPath'
  BY DEF AcceptedChainIsPath, GatherConfiguration, GatherStatement
<1>7. CASE GatherConfiguration
  <2>1. chain = <<>> => at = RelyingParty
    BY <1>3, <1>7 DEF GatherConfiguration, GatherOK
  <2>2. chain # <<>> => /\ Len(chain) > 1
                        /\ chain[Len(chain)].kind = "statement"
                        /\ SignerOf(chain[Len(chain)]) = at
    BY <1>7 DEF GatherConfiguration, GatherOK
  <2>3. PICK doc \in Configurations(at) :
          chain' = IF chain = <<>> \/ Superior[at] = NoEntity THEN Append(chain, doc) ELSE chain
    BY <1>7 DEF GatherConfiguration
  <2>4. /\ Genuine(doc) /\ SignerOf(doc) = at /\ doc.kind = "configuration"
        /\ Honest(at) => doc.sub = at
    BY <1>1, <1>2, ConfigurationGenuine
  <2>5. CASE chain = <<>>
    <3>1. chain' = <<doc>>
      BY <2>3, <2>5
    <3>2. Path(chain') /\ chain' \in Seq(Document) /\ Len(chain') = 1
          /\ chain' # <<>> /\ chain'[1] = doc
      BY <2>1, <2>4, <2>5, <3>1, PathStarts DEF Genuine
    <3>3. GatherOK'
      BY <1>2, <1>7, <2>4, <3>2 DEF GatherOK, GatherConfiguration, Complete
    <3> QED
      BY <1>1, <1>5, <1>6, <1>7, <3>2, <3>3 DEF TrustTypeOK, GatherConfiguration, RenewalOK, Fetching
  <2>6. CASE chain # <<>> /\ Superior[at] = NoEntity
    <3>1. chain' = Append(chain, doc)
      BY <2>3, <2>6
    <3>2. Path(chain')
      <4>1. Follows(doc, chain[Len(chain)])
        BY <2>2, <2>4, <2>6 DEF Follows
      <4> QED
        BY <1>3, <1>4, <2>2, <2>4, <2>6, <3>1, <4>1, PathExtends
    <3>3. chain' \in Seq(Document) /\ Len(chain') = Len(chain) + 1
          /\ chain'[Len(chain')] = doc
      BY <1>3, <2>4, <3>1 DEF Genuine
    <3>4. GatherOK'
      BY <1>3, <1>7, <2>4, <2>6, <3>3 DEF GatherOK, GatherConfiguration, Complete
    <3> QED
      BY <1>1, <1>5, <1>6, <1>7, <3>2, <3>3, <3>4 DEF TrustTypeOK, GatherConfiguration, RenewalOK, Fetching
  <2>7. CASE chain # <<>> /\ Superior[at] # NoEntity
    <3>1. UNCHANGED <<chain, at>> /\ pc' = "statement"
      BY <1>7, <2>3, <2>7 DEF GatherConfiguration
    <3>2. GatherOK'
      BY <2>2, <2>7, <3>1 DEF GatherOK
    <3> QED
      BY <1>1, <1>4, <1>5, <1>6, <1>7, <3>1, <3>2 DEF TrustTypeOK, GatherConfiguration, RenewalOK, Fetching
  <2> QED
    BY <2>5, <2>6, <2>7
<1>8. CASE GatherStatement
  <2>1. /\ Superior[at] \in Entities /\ chain # <<>>
        /\ SignerOf(chain[Len(chain)]) = at
        /\ Len(chain) > 1 => chain[Len(chain)].kind = "statement"
    BY <1>2, <1>8 DEF GatherStatement, GatherOK
  <2>2. PICK doc \in Statements(Superior[at], at) : chain' = Append(chain, doc)
    BY <1>8 DEF GatherStatement
  <2>3. /\ Genuine(doc) /\ SignerOf(doc) = Superior[at] /\ doc.kind = "statement"
        /\ Honest(Superior[at]) => doc.sub = at
    BY <1>1, <1>2, <2>1, StatementGenuine
  <2>4. Path(chain')
    <3>1. Follows(doc, chain[Len(chain)])
      BY <2>1, <2>3 DEF Follows
    <3> QED
      BY <1>3, <1>4, <2>1, <2>2, <2>3, <3>1, PathExtends
  <2>5. chain' \in Seq(Document) /\ Len(chain') = Len(chain) + 1
        /\ chain'[Len(chain')] = doc /\ Len(chain) > 0
        /\ at' = Superior[at] /\ pc' = "configuration"
    BY <1>3, <1>8, <2>1, <2>2, <2>3 DEF Genuine, GatherStatement
  <2>6. GatherOK'
    BY <1>3, <2>3, <2>5 DEF GatherOK
  <2> QED
    BY <1>1, <1>5, <1>6, <1>8, <2>1, <2>4, <2>5, <2>6
       DEF TrustTypeOK, GatherStatement, RenewalOK, Fetching
<1> QED
  BY <1>7, <1>8

\* A document is renewed in its place.
LEMMA PathRenews ==
  ASSUME PathInvariant, UNCHANGED federationVars,
         NEW i \in 1..Len(chain), Renew(i)
  PROVE  PathInvariant'
<1> USE DEF PathInvariant
<1>1. FederationTypeOK /\ FederationTypeOK' /\ UNCHANGED regime
  BY DEF TrustTypeOK, FederationTypeOK, federationVars
<1>2. Genuine(chain[i])
  BY DEF PathOK, Shape
<1>3. PICK new \in Fresh(chain[i]) : renewed' = [renewed EXCEPT ![i] = new]
  BY DEF Renew
<1>4. Replaces(new, chain[i]) /\ new \in Document
  BY <1>1, <1>2, <1>3, FreshReplaces DEF Replaces, Genuine
<1>5. TrustTypeOK' /\ GatherOK'
  BY <1>1, <1>3, <1>4 DEF TrustTypeOK, Renew, GatherOK, Complete
<1>6. \A doc, old : Replaces(doc, old) => Replaces(doc, old)'
  BY <1>1 DEF Replaces, Genuine, Honest
<1>7. RenewalOK'
  <2> SUFFICES ASSUME NEW j \in 1..Len(chain), renewed'[j] # NoDocument
               PROVE  Replaces(renewed'[j], chain[j])
    BY <1>6 DEF Renew, RenewalOK
  <2> QED
    BY <1>3, <1>4 DEF Renew, RenewalOK, TrustTypeOK
<1>8. PathOK'
  BY <1>1 DEF Renew, PathOK, Path, Shape, Genuine, Follows, Honest
<1>9. AcceptedChainIsPath'
  BY DEF Renew, AcceptedChainIsPath
<1> QED
  BY <1>5, <1>7, <1>8, <1>9

\* The renewed documents make a chain of the same shape, and of the same
\* entities if nobody misnames any.
LEMMA RenewedShape ==
  ASSUME PathInvariant, pc = "renew", AllRenewed
  PROVE  /\ renewed \in Seq(Document) /\ Len(renewed) = Len(chain) /\ Len(chain) \in Nat \ {0}
         /\ Shape(renewed) /\ Complete(renewed)
         /\ Honest(RelyingParty) => SignerOf(renewed[1]) = RelyingParty
<1> USE DEF PathInvariant
<1>1. Len(chain) \in Nat \ {0} /\ chain \in Seq(Document) /\ Path(chain)
  BY DEF TrustTypeOK, GatherOK, Complete, PathOK
<1>2. \A i \in 1..Len(chain) : Replaces(renewed[i], chain[i]) /\ renewed[i] \in Document
  BY DEF AllRenewed, RenewalOK, TrustTypeOK
<1>3. renewed \in [1..Len(chain) -> Document]
  BY <1>2 DEF TrustTypeOK
<1>4. renewed \in Seq(Document) /\ Len(renewed) = Len(chain)
  BY <1>1, <1>3
<1>5. \A i \in 1..Len(chain) : Genuine(renewed[i]) /\ renewed[i].kind = chain[i].kind
  BY <1>2 DEF Replaces
<1>6. Shape(renewed)
  <2>1. \A i \in 1..Len(renewed) : Genuine(renewed[i])
    BY <1>4, <1>5
  <2>2. renewed[1].kind = "configuration"
    BY <1>1, <1>5 DEF Path, Shape
  <2>3. \A i \in 2..(Len(renewed) - 1) : i \in 1..Len(chain) /\ chain[i].kind = "statement"
    BY <1>1, <1>4 DEF Path, Shape
  <2> QED
    BY <1>5, <2>1, <2>2, <2>3 DEF Shape
<1>7. Complete(renewed)
  BY <1>1, <1>4, <1>5 DEF Complete, GatherOK
<1>8. SignerOf(chain[1]) = RelyingParty /\ 1 \in 1..Len(chain)
  BY <1>1 DEF Path
<1> QED
  BY <1>1, <1>2, <1>4, <1>6, <1>7, <1>8 DEF Replaces

LEMMA RenewedPath ==
  ASSUME PathInvariant, pc = "renew", AllRenewed, regime.misnaming = {}
  PROVE  Path(renewed) /\ SignerOf(renewed[Len(renewed)]) = Anchor
<1> USE DEF PathInvariant
<1>1. \A i \in 1..Len(chain) :
        /\ SignerOf(renewed[i]) = SignerOf(chain[i])
        /\ renewed[i].sub = chain[i].sub /\ renewed[i].kind = chain[i].kind
  BY DEF AllRenewed, RenewalOK, Replaces, Honest
<1>2. Path(chain) /\ \A i \in 2..Len(chain) : i \in 1..Len(chain) /\ i - 1 \in 1..Len(chain)
  BY DEF PathOK, TrustTypeOK
<1>3. \A i \in 2..Len(chain) : Follows(renewed[i], renewed[i - 1])
  BY <1>1, <1>2 DEF Path, Follows, Honest
<1>4. Path(renewed)
  BY <1>3, RenewedShape DEF Path, Honest
<1> QED
  BY <1>1, <1>4, RenewedShape DEF GatherOK

\* The wallet has its answer about the renewed chain.
LEMMA PathRevalidates ==
  ASSUME PathInvariant, UNCHANGED federationVars, Revalidate
  PROVE  PathInvariant'
<1> USE DEF PathInvariant
<1>1. FederationTypeOK' /\ UNCHANGED regime
  BY DEF TrustTypeOK, FederationTypeOK, federationVars
<1>2. /\ chain' = renewed /\ UNCHANGED renewed /\ pc' \in {"accepted", "refused"}
      /\ pc' = "accepted" => Valid(renewed)
      /\ renewed \in Seq(Document) /\ Len(renewed) = Len(chain) /\ Len(chain) \in Nat \ {0}
      /\ Shape(renewed) /\ Complete(renewed)
      /\ Honest(RelyingParty) => SignerOf(renewed[1]) = RelyingParty
  BY RenewedShape DEF Revalidate
<1>3. TrustTypeOK'
  BY <1>1, <1>2 DEF TrustTypeOK, Revalidate, Fetching
<1>4. PathOK'
  <2>1. \A doc : Genuine(doc) => Genuine(doc)'
    BY <1>1 DEF Genuine, Honest
  <2>2. Shape(chain)'
    BY <1>2, <2>1 DEF Shape
  <2> QED
    BY <1>2, <2>2 DEF PathOK
<1>5. AcceptedChainIsPath'
  <2> SUFFICES ASSUME pc' = "accepted" PROVE AcceptedChainIsPath'
    BY DEF AcceptedChainIsPath
  <2>1. renewed[1].kind = "configuration" /\ renewed[Len(renewed)].kind = "configuration"
        /\ \A i \in 2..(Len(renewed) - 1) : renewed[i].kind = "statement"
    BY <1>2 DEF Shape, Complete
  <2>2. AllRenewed'
    BY <1>2 DEF AllRenewed, Revalidate
  <2> QED
    BY <1>1, <1>2, <2>1, <2>2, ValidLeads DEF AcceptedChainIsPath, By, SignerOf, Honest
<1> QED
  BY <1>2, <1>3, <1>4, <1>5 DEF GatherOK, RenewalOK

\* No step of the wallet or of the federation disturbs the shape.
LEMMA PathStep == PathInvariant /\ [Next]_trustVars => PathInvariant'
<1> SUFFICES ASSUME PathInvariant, [Next]_trustVars PROVE PathInvariant'
  OBVIOUS
<1>1. CASE ClientStep /\ UNCHANGED federationVars
  <2>1. CASE GatherConfiguration \/ GatherStatement
    BY <1>1, <2>1, PathGathers
  <2>2. CASE \E i \in 1..Len(chain) : Renew(i)
    BY <1>1, <2>2, PathRenews
  <2>3. CASE Revalidate
    BY <1>1, <2>3, PathRevalidates
  <2>4. CASE FetchAnchor \/ CheckFederationList \/ VerifyAnchor \/ Validate \/ FetchFails
    <3>1. UNCHANGED <<at, chain, renewed, renewOnFail>>
      BY <2>4 DEF FetchAnchor, CheckFederationList, VerifyAnchor, Validate, FetchFails, Refuse
    <3> QED
      BY <1>1, <2>4, <3>1, PathKept
  <2> QED
    BY <1>1, <2>1, <2>2, <2>3, <2>4 DEF ClientStep
<1>2. CASE UNCHANGED clientVars /\ FederationTypeOK'
  <2>1. UNCHANGED regime /\ UNCHANGED <<pc, anchorKeys, anchorFirst, at, chain, renewed, renewOnFail>>
    BY <1>2, RegimeFixed DEF clientVars
  <2>2. TrustTypeOK'
    <3>1. relisted' \in {"no", "added", "dropped"}
      BY <2>1 DEF PathInvariant, TrustTypeOK, Next, ClientStep, FederationStep,
                  StatementChanges, trustVars, FetchAnchor, CheckFederationList, Refuse,
                  GatherConfiguration, GatherStatement, VerifyAnchor, Validate, Renew,
                  Revalidate, FetchFails
    <3> QED
      BY <1>2, <2>1, <3>1 DEF PathInvariant, TrustTypeOK
  <2>3. PathOK'
    BY <2>1 DEF PathInvariant, PathOK, Path, Shape, Genuine, Follows, Honest
  <2>4. GatherOK' /\ RenewalOK'
    BY <2>1 DEF PathInvariant, GatherOK, Complete, RenewalOK, Replaces, Genuine, Honest
  <2>5. AcceptedChainIsPath'
    BY <2>1 DEF PathInvariant, AcceptedChainIsPath, By, AllRenewed
  <2> QED
    BY <2>2, <2>3, <2>4, <2>5 DEF PathInvariant
<1>3. CASE FederationStep /\ UNCHANGED clientVars
  BY <1>2, <1>3, FederationTyped DEF PathInvariant, TrustTypeOK
<1>4. CASE UNCHANGED trustVars
  <2>1. UNCHANGED clientVars /\ FederationTypeOK'
    BY <1>4 DEF PathInvariant, TrustTypeOK, FederationTypeOK, trustVars, federationVars, clientVars
  <2> QED
    BY <1>2, <2>1
<1> QED
  BY <1>1, <1>3, <1>4 DEF Next

THEOREM PathInvariance == Spec => []PathInvariant
BY PathInit, PathStep, PTL DEF Spec

\* Whatever the federation, its keys and the names in its documents, the
\* signatures of an accepted chain lead up to the trust anchor, from the relying
\* party unless the names in its own documents led the renewal elsewhere.
THEOREM AcceptedChain == Spec => []AcceptedChainIsPath
<1>1. PathInvariant => AcceptedChainIsPath
  BY DEF PathInvariant
<1> QED
  BY <1>1, PathInvariance, PTL

\* The chain goes up from superior to superior.
LEMMA GoesUp ==
  ASSUME PathInvariant, pc # "refused", NEW k \in 2..(Len(chain) - 1)
  PROVE  By(k) = Superior[By(k - 1)]
<1>1. CASE pc = "accepted"
  BY <1>1 DEF PathInvariant, AcceptedChainIsPath
<1>2. CASE pc # "accepted"
  <2>1. Path(chain) /\ k \in 2..Len(chain)
    BY <1>2 DEF PathInvariant, PathOK, TrustTypeOK
  <2> QED
    BY <2>1 DEF Path, Shape, Follows, By, SignerOf
<1> QED
  BY <1>1, <1>2

\* In a federation without cycles no entity signs twice: the signers between two
\* places of one entity would all have their superiors among themselves.
LEMMA SignersDiffer ==
  ASSUME Acyclic, PathInvariant, pc # "refused",
         NEW i \in 1..(Len(chain) - 1), NEW j \in 1..(Len(chain) - 1), i < j
  PROVE  By(i) # By(j)
<1> SUFFICES ASSUME By(i) = By(j) PROVE FALSE
  OBVIOUS
<1> DEFINE Between == {By(k) : k \in i..(j - 1)}
<1>1. chain \in Seq(Document)
  BY DEF PathInvariant, TrustTypeOK
<1>2. \A k \in i..(j - 1) : k \in 1..Len(chain) /\ k + 1 \in 2..(Len(chain) - 1) /\ (k + 1) - 1 = k
  BY <1>1
<1>3. Between \in SUBSET Entities
  <2>1. \A k \in i..(j - 1) : chain[k] \in Document
    BY <1>1, <1>2
  <2>2. \A doc \in Document : doc.signedBy[1] \in Entities
    BY DEF Document, Key
  <2>3. \A k \in i..(j - 1) : By(k) \in Entities
    BY <2>1, <2>2 DEF By
  <2> QED
    BY <2>3
<1>4. i \in i..(j - 1)
  BY <1>1
<1>5. Between # {}
  BY <1>4
<1>6. ASSUME NEW k \in i..(j - 1) PROVE Superior[By(k)] \in Between
  <2>1. By(k + 1) = Superior[By(k)]
    BY <1>2, GoesUp
  <2>2. k + 1 \in i..(j - 1) \/ k + 1 = j
    BY <1>2
  <2> QED
    BY <1>4, <2>1, <2>2
<1> HIDE DEF Between
<1>7. PICK e \in Between : Superior[e] \notin Between
  BY <1>3, <1>5 DEF Acyclic
<1>8. PICK k \in i..(j - 1) : e = By(k)
  BY <1>7 DEF Between
<1> QED
  BY <1>6, <1>7, <1>8

\* The recursion of gatherTrustChain into the superiors comes to no entity twice,
\* whatever the depth of the federation, if authority hints have no cycle.
THEOREM GathersOnce == Spec => []GatheredOnce
<1>1. PathInvariant => GatheredOnce
  <2> SUFFICES ASSUME PathInvariant, Acyclic, pc # "refused",
                      NEW i \in 1..(Len(chain) - 1), NEW j \in 1..(Len(chain) - 1),
                      By(i) = By(j)
               PROVE  i = j
    BY DEF GatheredOnce
  <2>1. ~(i < j) /\ ~(j < i)
    BY SignersDiffer
  <2>2. Len(chain) \in Nat
    BY DEF PathInvariant, TrustTypeOK
  <2> QED
    BY <2>1, <2>2
<1> QED
  BY <1>1, PathInvariance, PTL
-----------------------------------------------------------------------------
(* The keys of a chain in an orderly federation *)

\* In an orderly regime entities sign only with keys that are listed, and the
\* trust anchor, whose keys the wallet has fetched beforehand, keeps its own.
OrderlyInvariant == regime.orderly => KeyInvariant

LEMMA KeysInit == Init => KeyInvariant
BY DEF Init, FederationInit, KeyInvariant, SignersOK, GatheredOK, RenewedOK

\* A key rollover changes no statement and leaves every signer listed.
LEMMA KeysRollover ==
  ASSUME regime.orderly, PathInvariant, KeyInvariant, UNCHANGED <<clientVars, relisted>>,
         NEW e \in regime.rolling, Rollover(e)
  PROVE  KeyInvariant'
<1>1. UNCHANGED <<listed, regime>>
  BY DEF Rollover, PublishKey, SwitchKey, RetireKeys
<1>2. e \in Entities /\ e # Anchor
  BY DEF Rollover, PathInvariant, TrustTypeOK, FederationTypeOK
<1>3. SignersOK'
  <2> USE <1>1, <1>2 DEF KeyInvariant, SignersOK, PathInvariant, TrustTypeOK,
                         FederationTypeOK, clientVars
  <2>1. CASE PublishKey(e)
    BY <2>1 DEF PublishKey
  <2>2. CASE SwitchKey(e)
    BY <2>2 DEF SwitchKey, Announced
  <2>3. CASE RetireKeys(e)
    BY <2>3 DEF RetireKeys
  <2> QED
    BY <2>1, <2>2, <2>3 DEF Rollover
<1>4. GatheredOK'
  BY <1>1 DEF KeyInvariant, GatheredOK, Listed, clientVars
<1>5. RenewedOK'
  BY <1>1 DEF KeyInvariant, RenewedOK, Listed, SignerOf, clientVars
<1> QED
  BY <1>3, <1>4, <1>5 DEF KeyInvariant

\* A statement that changes without dropping a key keeps signers listed.
LEMMA KeysRelisted ==
  ASSUME regime.orderly, PathInvariant, KeyInvariant, UNCHANGED clientVars,
         NEW e \in regime.rolling \ {Anchor}, StatementChanges(e)
  PROVE  KeyInvariant'
<1>1. /\ listed' = [listed EXCEPT ![e] = published[e]]
      /\ UNCHANGED <<published, signer>> /\ relisted' # "no"
      /\ relisted' # "dropped" => relisted # "dropped" /\ listed[e] \subseteq published[e]
  BY DEF StatementChanges, Relist, PathInvariant, TrustTypeOK, FederationTypeOK
<1>2. SignersOK'
  BY <1>1 DEF KeyInvariant, SignersOK, PathInvariant, TrustTypeOK, FederationTypeOK, clientVars
<1>3. GatheredOK'
  <2> SUFFICES ASSUME relisted' # "dropped",
                      pc \in {"configuration", "statement", "anchor", "built"},
                      chain # <<>>
               PROVE  Listed(chain[Len(chain)])'
    BY <1>1 DEF KeyInvariant, GatheredOK, clientVars
  <2>1. Listed(chain[Len(chain)])
    BY <1>1 DEF KeyInvariant, GatheredOK
  <2>2. SignerOf(chain[Len(chain)]) \in Entities
    BY LastDocument DEF PathInvariant, Document, Key, SignerOf
  <2> QED
    BY <1>1, <2>1, <2>2 DEF Listed, PathInvariant, TrustTypeOK, FederationTypeOK, clientVars
<1>4. RenewedOK'
  BY <1>1 DEF RenewedOK
<1> QED
  BY <1>2, <1>3, <1>4 DEF KeyInvariant

\* What an entity signs now is signed with a listed key.
LEMMA ServedListed ==
  ASSUME SignersOK, NEW e \in Entities, NEW doc, doc.signedBy = <<e, signer[e]>>
  PROVE  Listed(doc)
BY DEF SignersOK, Listed, SignerOf

\* The key an entity signs with is among its keys.
LEMMA SignerAmongKeys ==
  ASSUME NEW e, NEW n, NEW generations, n \in generations
  PROVE  <<e, n>> \in KeysOf(e, generations)
BY DEF KeysOf

\* So the key of a listed document is one of the listed keys of its signer.
LEMMA ListedSigner ==
  ASSUME NEW doc \in Document, Listed(doc)
  PROVE  doc.signedBy \in KeysOf(SignerOf(doc), listed[SignerOf(doc)])
<1>1. doc.signedBy = <<SignerOf(doc), doc.signedBy[2]>>
  BY DEF Document, Key, SignerOf
<1>2. doc.signedBy[2] \in listed[SignerOf(doc)]
  BY DEF Listed
<1>3. <<SignerOf(doc), doc.signedBy[2]>> \in KeysOf(SignerOf(doc), listed[SignerOf(doc)])
  BY <1>2, SignerAmongKeys
<1> QED
  BY <1>1, <1>3

\* A chain that verifies is extended by a document with the listed keys of
\* the signer of its last one.
LEMMA SignaturesExtend ==
  ASSUME NEW docs \in Seq(Document), docs # <<>>, Signed(docs),
         Listed(docs[Len(docs)]), NEW doc \in Document,
         doc.keys = KeysOf(SignerOf(docs[Len(docs)]), listed[SignerOf(docs[Len(docs)])])
  PROVE  Signed(Append(docs, doc))
<1> DEFINE new == Append(docs, doc)
<1>1. Len(docs) \in Nat \ {0} /\ Len(new) = Len(docs) + 1 /\ new[Len(new)] = doc
      /\ \A i \in 1..Len(docs) : new[i] = docs[i]
  OBVIOUS
<1> SUFFICES ASSUME NEW i \in 1..Len(docs)
             PROVE  new[i].signedBy \in new[i + 1].keys
  BY <1>1 DEF Signed
<1>2. CASE i = Len(docs)
  <2>1. docs[i] \in Document /\ Listed(docs[i])
        /\ doc.keys = KeysOf(SignerOf(docs[i]), listed[SignerOf(docs[i])])
    BY <1>1, <1>2
  <2>2. docs[i].signedBy \in doc.keys
    BY <2>1, ListedSigner
  <2> QED
    BY <1>1, <1>2, <2>2
<1>3. CASE i \in 1..(Len(docs) - 1)
  BY <1>1, <1>3 DEF Signed
<1> QED
  BY <1>1, <1>2, <1>3

\* A document is added to a chain that verifies so far.
LEMMA KeysGathered ==
  ASSUME regime.orderly, PathInvariant, KeyInvariant,
         UNCHANGED federationVars, GatherConfiguration \/ GatherStatement
  PROVE  KeyInvariant'
<1> USE DEF PathInvariant, KeyInvariant
<1>1. SignersOK' /\ RenewedOK' /\ UNCHANGED <<listed, relisted>>
  BY DEF SignersOK, RenewedOK, GatherConfiguration, GatherStatement, federationVars
<1>2. FederationTypeOK /\ at \in Entities /\ chain \in Seq(Document)
  BY DEF TrustTypeOK
<1>3. CASE GatherStatement
  <2>1. Superior[at] \in Entities /\ chain # <<>> /\ SignerOf(chain[Len(chain)]) = at
    BY <1>2, <1>3 DEF GatherStatement, GatherOK
  <2>2. PICK doc \in Statements(Superior[at], at) : chain' = Append(chain, doc)
    BY <1>3 DEF GatherStatement
  <2>3. doc \in Document /\ Listed(doc) /\ doc.keys = KeysOf(at, listed[at])
    BY <1>2, <2>1, StatementGenuine, ServedListed DEF Genuine
  <2>4. pc = "statement" /\ pc' = "configuration" /\ chain'[Len(chain')] = doc
    BY <1>2, <1>3, <2>2, <2>3 DEF GatherStatement
  <2>5. ASSUME relisted # "dropped" PROVE Signed(chain')
    BY <1>2, <2>1, <2>2, <2>3, <2>4, <2>5, SignaturesExtend DEF GatheredOK
  <2>6. Listed(chain[Len(chain)])'
    BY <1>1, <2>3, <2>4 DEF Listed
  <2> QED
    BY <1>1, <2>4, <2>5, <2>6 DEF GatheredOK
<1>4. CASE GatherConfiguration /\ (chain = <<>> \/ Superior[at] = NoEntity)
  <2>1. PICK doc \in Configurations(at) : chain' = Append(chain, doc)
    BY <1>4 DEF GatherConfiguration
  <2>2. pc = "configuration" /\ (chain # <<>> => SignerOf(chain[Len(chain)]) = at)
    BY <1>4 DEF GatherConfiguration, GatherOK
  <2>3. doc \in Document /\ Listed(doc) /\ SignerOf(doc) = at
        /\ doc.keys = KeysOf(at, published[at])
    BY <1>2, ConfigurationGenuine, ServedListed DEF Genuine
  <2>4. at = Anchor => doc.keys = KeysOf(at, listed[at])
    BY <2>3 DEF SignersOK
  <2>5. chain'[Len(chain')] = doc /\ (chain = <<>> => Signed(chain'))
    BY <1>2, <2>1, <2>3 DEF Signed
  <2>6. ASSUME relisted # "dropped", at = Anchor, chain # <<>> PROVE Signed(chain')
    BY <1>2, <2>1, <2>2, <2>3, <2>4, <2>6, SignaturesExtend DEF GatheredOK
  <2>7. Listed(chain[Len(chain)])'
    BY <1>1, <2>3, <2>5 DEF Listed
  <2>8. chain # <<>> => pc' = "anchor"
    BY <1>4 DEF GatherConfiguration
  <2> QED
    BY <1>1, <2>3, <2>5, <2>6, <2>7, <2>8 DEF GatheredOK, SignerOf
<1>5. CASE GatherConfiguration /\ chain # <<>> /\ Superior[at] # NoEntity
  <2>1. pc = "configuration" /\ pc' = "statement" /\ chain' = chain
    BY <1>5 DEF GatherConfiguration
  <2> QED
    BY <1>1, <2>1 DEF GatheredOK, Listed
<1> QED
  BY <1>1, <1>3, <1>4, <1>5

\* The other steps of the wallet before the renewal leave the chain alone.
LEMMA KeysKept ==
  ASSUME regime.orderly, PathInvariant, KeyInvariant,
         UNCHANGED <<federationVars, at, chain, renewed, renewOnFail>>,
         \/ FetchAnchor \/ CheckFederationList \/ VerifyAnchor \/ Validate \/ FetchFails
  PROVE  KeyInvariant'
<1> USE DEF PathInvariant, KeyInvariant
<1>1. SignersOK'
  BY DEF SignersOK, FetchAnchor, CheckFederationList, VerifyAnchor, Validate, FetchFails,
         Refuse, federationVars
<1>2. RenewedOK'
  BY DEF RenewedOK, RenewalOK, FetchAnchor, CheckFederationList, VerifyAnchor, Validate,
         FetchFails, Refuse, TrustTypeOK, Fetching
<1>3. GatheredOK'
  <2>1. CASE CheckFederationList
    BY <2>1 DEF CheckFederationList, GatheredOK, GatherOK, Refuse
  <2>2. CASE FetchAnchor \/ Validate \/ FetchFails
    BY <2>2 DEF FetchAnchor, Validate, FetchFails, GatheredOK, Refuse
  <2>3. CASE VerifyAnchor
    BY <2>3 DEF VerifyAnchor, GatheredOK, Refuse, Listed, federationVars
  <2> QED
    BY <2>1, <2>2, <2>3
<1> QED
  BY <1>1, <1>2, <1>3

\* A document is renewed while the statements stay as they are.
LEMMA KeysRenewed ==
  ASSUME regime.orderly, PathInvariant, KeyInvariant, UNCHANGED federationVars,
         NEW i \in 1..Len(chain), Renew(i)
  PROVE  KeyInvariant'
<1> USE DEF PathInvariant, KeyInvariant
<1>1. SignersOK' /\ GatheredOK' /\ UNCHANGED <<listed, chain, pc, relisted, regime>>
  BY DEF SignersOK, GatheredOK, Renew, federationVars
<1>2. FederationTypeOK /\ Genuine(chain[i])
  BY DEF TrustTypeOK, PathOK, Shape
<1>3. PICK doc \in Fresh(chain[i]) : renewed' = [renewed EXCEPT ![i] = doc]
  BY DEF Renew
<1>4. /\ doc.signedBy = <<chain[i].iss, signer[chain[i].iss]>> /\ chain[i].iss \in Entities
      /\ doc.kind = "configuration" => doc.keys = KeysOf(chain[i].iss, published[chain[i].iss])
      /\ doc.kind = "statement" => doc.keys = KeysOf(chain[i].sub, listed[chain[i].sub])
      /\ regime.misnaming = {} /\ doc.kind = "statement" => doc.sub = chain[i].sub
  BY <1>2, FreshServed DEF Honest, Genuine, Document
<1>5. Listed(doc)
  BY <1>4, ServedListed
<1>6. SignerOf(doc) = chain[i].iss
  BY <1>4 DEF SignerOf
<1>7. SignerOf(doc) = Anchor /\ doc.kind = "configuration" => doc.keys = KeysOf(Anchor, {1})
  BY <1>4, <1>6 DEF SignersOK
<1>8. RenewedOK'
  <2> SUFFICES ASSUME relisted = "no", pc = "renew", regime.misnaming = {},
                      NEW j \in 1..Len(chain), renewed'[j] # NoDocument
               PROVE  /\ Listed(renewed'[j])
                      /\ renewed'[j].kind = "statement" =>
                           renewed'[j].keys = KeysOf(renewed'[j].sub, listed[renewed'[j].sub])
                      /\ SignerOf(renewed'[j]) = Anchor /\ renewed'[j].kind = "configuration" =>
                           renewed'[j].keys = KeysOf(Anchor, {1})
    BY <1>1 DEF RenewedOK, Listed, SignerOf
  <2>1. CASE j = i
    BY <1>3, <1>4, <1>5, <1>7, <2>1 DEF TrustTypeOK
  <2>2. CASE j # i
    BY <1>3, <2>2 DEF RenewedOK, TrustTypeOK
  <2> QED
    BY <2>1, <2>2
<1> QED
  BY <1>1, <1>8

\* No step disturbs the keys of an orderly federation.
LEMMA KeysStep ==
  PathInvariant /\ OrderlyInvariant /\ [Next]_trustVars => OrderlyInvariant'
<1> SUFFICES ASSUME regime.orderly, PathInvariant, KeyInvariant, [Next]_trustVars
             PROVE  KeyInvariant'
  BY RegimeFixed DEF OrderlyInvariant
<1>1. CASE ClientStep /\ UNCHANGED federationVars
  <2>1. CASE GatherConfiguration \/ GatherStatement
    BY <1>1, <2>1, KeysGathered
  <2>2. CASE \E i \in 1..Len(chain) : Renew(i)
    BY <1>1, <2>2, KeysRenewed
  <2>3. CASE Revalidate
    BY <1>1, <2>3 DEF KeyInvariant, SignersOK, GatheredOK, RenewedOK, Revalidate, federationVars
  <2>4. CASE FetchAnchor \/ CheckFederationList \/ VerifyAnchor \/ Validate \/ FetchFails
    <3>1. UNCHANGED <<at, chain, renewed, renewOnFail>>
      BY <2>4 DEF FetchAnchor, CheckFederationList, VerifyAnchor, Validate, FetchFails, Refuse
    <3> QED
      BY <1>1, <2>4, <3>1, KeysKept
  <2> QED
    BY <1>1, <2>1, <2>2, <2>3, <2>4 DEF ClientStep
<1>2. CASE FederationStep /\ UNCHANGED clientVars
  BY <1>2, KeysRollover, KeysRelisted DEF FederationStep
<1>3. CASE UNCHANGED trustVars
  BY <1>3 DEF trustVars, federationVars, clientVars, KeyInvariant, SignersOK, GatheredOK,
              RenewedOK, Signed, Listed, SignerOf
<1> QED
  BY <1>1, <1>2, <1>3 DEF Next

THEOREM KeyInvariance == Spec => []OrderlyInvariant
<1>1. Init => OrderlyInvariant
  BY KeysInit DEF OrderlyInvariant
<1> QED
  BY <1>1, KeysStep, PathInvariance, PTL DEF Spec

\* A built chain that ends at the anchor verifies to the end.
LEMMA BuiltConsistent == PathInvariant /\ OrderlyInvariant => BuiltChainConsistent
<1> SUFFICES ASSUME PathInvariant, KeyInvariant, pc = "built", relisted # "dropped"
             PROVE  Consistent(chain)
  BY DEF BuiltChainConsistent, OrderlyInvariant
<1> DEFINE last == chain[Len(chain)]
<1>1. chain # <<>> /\ SignerOf(last) = Anchor /\ Signed(chain) /\ Listed(last)
  BY DEF PathInvariant, GatherOK, Complete, KeyInvariant, GatheredOK
<1>2. Len(chain) \in 1..Len(chain) /\ last \in Document
  BY <1>1, LastDocument DEF PathInvariant
<1>3. last.signedBy \in KeysOf(SignerOf(last), listed[SignerOf(last)])
  BY <1>1, <1>2, ListedSigner
<1>4. anchorKeys = listed[Anchor]
  BY DEF KeyInvariant, SignersOK, GatherOK, PathInvariant
<1> QED
  BY <1>1, <1>2, <1>3, <1>4 DEF Consistent, SelectKeys, Signed, PathInvariant, TrustTypeOK

\* So does a chain all of whose documents were renewed under the same statements.
LEMMA RenewedConsistent == PathInvariant /\ OrderlyInvariant => RenewedChainConsistent
<1> SUFFICES ASSUME PathInvariant, KeyInvariant, regime.misnaming = {},
                    pc = "renew", AllRenewed, relisted = "no",
                    NEW i \in 1..Len(renewed)
             PROVE  renewed[i].signedBy \in SelectKeys(renewed, i)
  BY DEF RenewedChainConsistent, Consistent, OrderlyInvariant
<1>1. /\ renewed \in Seq(Document) /\ Len(renewed) = Len(chain) /\ Len(renewed) \in Nat
      /\ Path(renewed) /\ Complete(renewed) /\ SignerOf(renewed[Len(renewed)]) = Anchor
  BY RenewedShape, RenewedPath
<1>2. \A j \in 1..Len(renewed) :
        /\ Listed(renewed[j])
        /\ renewed[j].kind = "statement" =>
             renewed[j].keys = KeysOf(renewed[j].sub, listed[renewed[j].sub])
        /\ SignerOf(renewed[j]) = Anchor /\ renewed[j].kind = "configuration" =>
             renewed[j].keys = KeysOf(Anchor, {1})
  BY <1>1 DEF KeyInvariant, RenewedOK, AllRenewed
<1>3. renewed[i].signedBy \in KeysOf(SignerOf(renewed[i]), listed[SignerOf(renewed[i])])
  BY <1>1, <1>2, ListedSigner
<1>4. listed[Anchor] = {1} /\ anchorKeys = {1}
  BY DEF KeyInvariant, SignersOK
<1>5. ASSUME i # Len(renewed)
      PROVE  i + 1 \in 2..Len(renewed) /\ Follows(renewed[i + 1], renewed[i])
  <2>1. i + 1 \in 2..Len(renewed) /\ (i + 1) - 1 = i
    BY <1>1, <1>5
  <2> QED
    BY <1>1, <2>1 DEF Path
<1>6. CASE i = Len(renewed)
  BY <1>1, <1>3, <1>4, <1>6 DEF SelectKeys
<1>7. CASE i + 1 = Len(renewed)
  <2>1. /\ renewed[i + 1].kind = "configuration" /\ SignerOf(renewed[i + 1]) = Anchor
        /\ SignerOf(renewed[i]) = Anchor
    BY <1>1, <1>5, <1>7 DEF Complete, Follows
  <2>2. renewed[i + 1].keys = KeysOf(Anchor, {1})
    BY <1>1, <1>2, <1>7, <2>1
  <2> QED
    BY <1>1, <1>3, <1>4, <1>7, <2>1, <2>2 DEF SelectKeys
<1>8. CASE i + 1 < Len(renewed)
  <2>1. renewed[i + 1].kind = "statement" /\ i + 1 \in 1..Len(renewed)
    BY <1>1, <1>8 DEF Path, Shape
  <2>2. renewed[i + 1].sub = SignerOf(renewed[i])
    BY <1>1, <1>5, <1>8 DEF Follows, Honest
  <2>3. renewed[i + 1].keys = KeysOf(SignerOf(renewed[i]), listed[SignerOf(renewed[i])])
    BY <1>2, <2>1, <2>2
  <2> QED
    BY <1>1, <1>3, <1>8, <2>3 DEF SelectKeys
<1> QED
  BY <1>1, <1>6, <1>7, <1>8

\* Rolling keys over in order does not break a chain while it is gathered.
THEOREM BuiltChain == Spec => []BuiltChainConsistent
BY BuiltConsistent, PathInvariance, KeyInvariance, PTL

\* Nor does it break the parallel renewal of a chain.
THEOREM RenewedChain == Spec => []RenewedChainConsistent
BY RenewedConsistent, PathInvariance, KeyInvariance, PTL
=============================================================================
