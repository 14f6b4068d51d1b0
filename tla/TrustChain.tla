----------------------------- MODULE TrustChain -----------------------------
(***************************************************************************)
(* buildTrustChain followed by verifyTrustChain.  The chain is gathered    *)
(* one document at a time, from the relying party up, while the entities   *)
(* roll their keys over; a chain that does not validate is renewed once,   *)
(* every document on its own and all of them in parallel.                  *)
(***************************************************************************)
EXTENDS Federation, Sequences

CONSTANTS
  RelyingParty,     \* the entity whose chain is built
  FederationList,   \* the entities that the anchor lists, NoList if its
                    \* configuration has no federation_list_endpoint
  NoList,
  Certified,        \* the entities whose keys carry a valid x5c
  NoDocument

ASSUME TrustChainAssumption ==
  /\ RelyingParty \in Entities
  /\ FederationList \in (SUBSET Entities) \cup {NoList}
  /\ Certified \subseteq Entities
  /\ NoDocument \notin Document

VARIABLES
  pc,             \* the await the wallet is suspended at
  anchorKeys,     \* trustAnchorConfig.keys
  anchorFirst,    \* trustAnchorConfig.keys[0]
  at,             \* the entity gatherTrustChain is called for
  chain,          \* the chain gathered so far, or given to verifyTrustChain
  renewed,        \* the documents renewTrustChain has fetched, by position
  renewOnFail,
  relisted        \* history: what superiors did to their statements since
                  \* the documents of the chain began to be fetched

clientVars == <<pc, anchorKeys, anchorFirst, at, chain, renewed, renewOnFail>>
trustVars == <<federationVars, clientVars, relisted>>

Fetching == {"start", "list", "configuration", "statement", "anchor", "renew"}

TrustTypeOK ==
  /\ FederationTypeOK
  /\ pc \in Fetching \cup {"built", "accepted", "refused"}
  /\ anchorKeys \subseteq Generations
  /\ anchorFirst \in Generations
  /\ at \in Entities
  /\ chain \in Seq(Document)
  /\ renewed \in [1..Len(chain) -> Document \cup {NoDocument}]
  /\ renewOnFail \in BOOLEAN
  /\ relisted \in {"no", "added", "dropped"}

Init ==
  /\ FederationInit
  /\ pc = "start"
  /\ anchorKeys = {}
  /\ anchorFirst = 1
  /\ at = RelyingParty
  /\ chain = <<>>
  /\ renewed = <<>>
  /\ renewOnFail \in BOOLEAN
  /\ relisted = "no"
-----------------------------------------------------------------------------
(* buildTrustChain *)

Refuse ==
  /\ pc' = "refused"
  /\ UNCHANGED <<anchorKeys, anchorFirst, at, chain, renewed, renewOnFail, relisted>>

\* The caller fetches the configuration of the anchor.  Nothing fixes the
\* order of its keys.
FetchAnchor ==
  /\ pc = "start"
  /\ anchorKeys' = published[Anchor]
  /\ anchorFirst' \in published[Anchor]
  /\ pc' = "list"
  /\ UNCHANGED <<at, chain, renewed, renewOnFail, relisted>>

\* The list is fetched where the anchor names its endpoint.
CheckFederationList ==
  /\ pc = "list"
  /\ IF FederationList = NoList \/ RelyingParty \in FederationList
     THEN /\ pc' = "configuration"
          /\ relisted' = "no"
          /\ UNCHANGED <<anchorKeys, anchorFirst, at, chain, renewed, renewOnFail>>
     ELSE Refuse

\* Faulty variant: every configuration fetched enters the chain.
GatherEveryConfiguration ==
  /\ pc = "configuration"
  /\ \E answer \in Configurations(at) : chain' = Append(chain, answer)
  /\ renewed' = [i \in 1..Len(chain') |-> NoDocument]
  /\ pc' = IF Superior[at] = NoEntity THEN "anchor" ELSE "statement"
  /\ UNCHANGED <<anchorKeys, anchorFirst, at, renewOnFail, relisted>>

\* The configuration of the relying party enters the chain, and that of the
\* entity that has no superior.
GatherConfiguration ==
  /\ pc = "configuration"
  /\ \E answer \in Configurations(at) :
       chain' = IF chain = <<>> \/ Superior[at] = NoEntity
                THEN Append(chain, answer) ELSE chain
  /\ renewed' = [i \in 1..Len(chain') |-> NoDocument]
  /\ pc' = IF Superior[at] = NoEntity THEN "anchor" ELSE "statement"
  /\ UNCHANGED <<anchorKeys, anchorFirst, at, renewOnFail, relisted>>

\* The statement about the entity, at the endpoint its superior names.
GatherStatement ==
  /\ pc = "statement"
  /\ listed[at] # {}
  /\ \E answer \in Statements(Superior[at], at) : chain' = Append(chain, answer)
  /\ renewed' = [i \in 1..Len(chain') |-> NoDocument]
  /\ at' = Superior[at]
  /\ pc' = "configuration"
  /\ UNCHANGED <<anchorKeys, anchorFirst, renewOnFail, relisted>>

\* The last document must be signed by the first key of the anchor.
VerifyAnchor ==
  /\ pc = "anchor"
  /\ IF chain[Len(chain)].signedBy = <<Anchor, anchorFirst>>
     THEN /\ pc' = "built"
          /\ UNCHANGED <<anchorKeys, anchorFirst, at, chain, renewed,
                         renewOnFail, relisted>>
     ELSE Refuse
-----------------------------------------------------------------------------
(* verifyTrustChain *)

\* Faulty variant: a document is verified with the keys it carries.
OwnKeys(docs, i) == docs[i].keys

\* selectKeys: the keys of the next document, those of the anchor at the end.
SelectKeys(docs, i) ==
  IF i = Len(docs) THEN KeysOf(Anchor, anchorKeys) ELSE docs[i + 1].keys

\* Each document is signed by one of the selected keys, and the x5c of that
\* key leads to the certificate of the anchor.
Valid(docs) ==
  /\ docs # <<>>
  /\ Anchor \in Certified
  /\ \A i \in 1..Len(docs) :
       /\ docs[i].signedBy \in SelectKeys(docs, i)
       /\ docs[i].signedBy[1] \in Certified

\* Even a valid chain may fail: the revocation lists are fetched over the net.
Validate ==
  /\ pc = "built"
  /\ \/ Valid(chain) /\ pc' = "accepted" /\ UNCHANGED relisted
     \/ renewOnFail /\ pc' = "renew" /\ relisted' = "no"
     \/ ~renewOnFail /\ pc' = "refused" /\ UNCHANGED relisted
  /\ UNCHANGED <<anchorKeys, anchorFirst, at, chain, renewed, renewOnFail>>

\* Faulty variant: the subject's configuration, whatever the document was.
FreshConfiguration(doc) == Configurations(doc.sub)

\* What may now be served in the place of doc, by the entities it names.
Fresh(doc) ==
  IF doc.kind = "configuration" THEN Configurations(doc.iss)
                                ELSE Statements(doc.iss, doc.sub)

Renew(i) ==
  /\ pc = "renew"
  /\ renewed[i] = NoDocument
  /\ chain[i].kind = "statement" =>
       Superior[chain[i].sub] = chain[i].iss /\ listed[chain[i].sub] # {}
  /\ \E answer \in Fresh(chain[i]) : renewed' = [renewed EXCEPT ![i] = answer]
  /\ UNCHANGED <<pc, anchorKeys, anchorFirst, at, chain, renewOnFail, relisted>>

AllRenewed == \A i \in 1..Len(chain) : renewed[i] # NoDocument

\* Faulty variant: an invalid chain is renewed again and again.
RevalidateOrRenew ==
  /\ pc = "renew"
  /\ AllRenewed
  /\ chain' = renewed
  /\ pc' \in {"renew"} \cup (IF Valid(renewed) THEN {"accepted"} ELSE {})
  /\ renewed' = [i \in 1..Len(chain) |-> NoDocument]
  /\ UNCHANGED <<anchorKeys, anchorFirst, at, renewOnFail, relisted>>

\* The renewed chain is accepted or not: there is no second renewal.
Revalidate ==
  /\ pc = "renew"
  /\ AllRenewed
  /\ chain' = renewed
  /\ pc' \in {"refused"} \cup (IF Valid(renewed) THEN {"accepted"} ELSE {})
  /\ UNCHANGED <<anchorKeys, anchorFirst, at, renewed, renewOnFail, relisted>>

\* A request fails, or its answer does not parse.
FetchFails == pc \in Fetching /\ Refuse

ClientStep ==
  \/ FetchAnchor
  \/ CheckFederationList
  \/ GatherConfiguration
  \/ GatherStatement
  \/ VerifyAnchor
  \/ Validate
  \/ \E i \in 1..Len(chain) : Renew(i)
  \/ Revalidate
  \/ FetchFails

\* A statement changes, which the history notes.
StatementChanges(e) ==
  /\ Relist(e)
  /\ relisted' = IF relisted = "dropped" \/ ~(listed[e] \subseteq listed'[e])
                 THEN "dropped" ELSE "added"

FederationStep ==
  \/ \E e \in regime.rolling : Rollover(e) /\ UNCHANGED relisted
  \/ \E e \in regime.rolling \ {Anchor} : StatementChanges(e)

Next ==
  \/ ClientStep /\ UNCHANGED federationVars
  \/ FederationStep /\ UNCHANGED clientVars

Spec == Init /\ [][Next]_trustVars

\* Every request of the wallet is eventually answered or fails.
FairSpec == Spec /\ WF_trustVars(ClientStep /\ UNCHANGED federationVars)
-----------------------------------------------------------------------------
(* Properties *)

\* Whose key the document at place i of the chain is signed with.
By(i) == chain[i].signedBy[1]

\* The signatures of an accepted chain lead up to the trust anchor, each by the
\* superior of the one before, whatever the documents say of their issuers and
\* subjects, which no check of the code compares: a configuration, statements
\* and the configuration of the anchor.  It starts at the relying party, except
\* that a chain is renewed by the names in it: one whose relying party misnames
\* itself may then start at another entity.  Who names itself and its
\* subordinates truthfully is named truthfully in the chain.
AcceptedChainIsPath ==
  pc = "accepted" =>
    LET n == Len(chain) IN
    /\ chain[1].kind = "configuration"
    /\ chain[n].kind = "configuration" /\ By(n) = Anchor
    /\ \A i \in 2..(n - 1) : chain[i].kind = "statement" /\ By(i) = Superior[By(i - 1)]
    /\ By(1) = RelyingParty \/ (AllRenewed /\ RelyingParty \in regime.misnaming)
    /\ \A i \in 1..n : By(i) \notin regime.misnaming =>
         /\ chain[i].iss = By(i)
         /\ chain[i].sub = IF i = 1 THEN By(1) ELSE By(i - 1)

\* What the README of the trust module requires of the documents of a chain:
\* the first names one entity, those in the middle two.  The code compares
\* neither name, so a chain with others is accepted.
ChainAsDocumented ==
  pc = "accepted" =>
    /\ chain[1].iss = chain[1].sub
    /\ \A i \in 2..(Len(chain) - 1) : chain[i].iss # chain[i].sub

\* Every signature of the chain verifies, as far as keys and certificates of
\* the entities on it go.
Consistent(docs) ==
  \A i \in 1..Len(docs) : docs[i].signedBy \in SelectKeys(docs, i)

\* A chain gathered from entities that roll their keys over in order is
\* consistent although its documents are fetched one by one, unless a key was
\* dropped from a statement meanwhile.
BuiltChainConsistent ==
  regime.orderly /\ pc = "built" /\ relisted # "dropped" => Consistent(chain)

\* So is a renewed chain, although its documents are fetched in any order,
\* unless a statement changed meanwhile or an entity misnames somebody, as the
\* renewal follows the names.
RenewedChainConsistent ==
  regime.orderly /\ regime.misnaming = {} /\ relisted = "no" /\ pc = "renew" /\ AllRenewed
    => Consistent(renewed)

\* No entity is subordinate to itself, through however many superiors.
Acyclic ==
  \A S \in SUBSET Entities : S # {} => \E e \in S : Superior[e] \notin S

\* If authority hints have no cycle, the recursion into the superiors comes to
\* no entity twice: nothing in build-chain.ts bounds its depth or remembers
\* where it has been.  The last configuration is of the entity before it.
GatheredOnce ==
  Acyclic /\ pc # "refused" =>
    \A i, j \in 1..(Len(chain) - 1) : By(i) = By(j) => i = j

\* The wallet comes to a decision, however often the keys change.
TrustDecided == <>(pc \in {"accepted", "refused"})
=============================================================================
