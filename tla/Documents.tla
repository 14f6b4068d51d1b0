----------------------------- MODULE Documents ------------------------------
(***************************************************************************)
(* Verification and parsing of an issued document, in the two formats.  A  *)
(* document is a record of its signature, its holder key, its certificate  *)
(* chain and its claims; the claims are the function from the path of each *)
(* node of the JSON tree (each element of the namespaces, in an mdoc) to   *)
(* the kind of the node.  A step of a path is a key or the index of an     *)
(* item; in a configuration the step AnyItem stands for every item.  The   *)
(* configuration of a credential is its format and a set of claims, each   *)
(* with a path and the texts that display it ({} without "display").       *)
(***************************************************************************)
EXTENDS Errors, Sequences
LOCAL INSTANCE SequencesExt

CONSTANTS Items,    \* the indices of array items
          AnyItem   \* "null" in the path of a claim

(* Paths *)

IsPathEqual(a, b) == a = b
IsPrefixOf(prefix, path) == Len(prefix) < Len(path) /\ IsPrefix(prefix, path)

\* The path under which the configuration looks a node up: any item is null
\* there, so that a claim whose path has the index of an item is met by none,
\* and is never shown.
Pattern(path) == [i \in DOMAIN path |-> IF path[i] \in Items THEN AnyItem ELSE path[i]]
IsItem(path) == path[Len(path)] \in Items
Steps(path) == {SubSeq(path, 1, n) : n \in 1 .. Len(path)}

(* Parsing *)

\* Claims without texts, as the dates, are not for the user.
DisplayableClaims(config) == {c \in config.claims : c.display # {}}

\* The mandatory attributes looked for: the root keys of the claims alone.
MissingRoots(config, nodes) ==
  {c.path[1] : c \in DisplayableClaims(config)} \ {p[1] : p \in DOMAIN nodes}

\* Faulty variant: a claim nested in another one is not looked for.
ConfiguredKeyAtRoot(config, path) ==
  \E c \in DisplayableClaims(config) : IsPathEqual(c.path, Pattern(path))

\* A key is processed when a claim of the configuration goes through it.
ConfiguredKey(config, path) ==
  \E c \in DisplayableClaims(config) :
    LET parent == Pattern(Front(path)) IN
      /\ IsPrefixOf(parent, c.path)
      /\ c.path[Len(parent) + 1] = Last(path)

\* What is shown: the nodes to which only items and configured keys lead.
ProcessLevel(config, nodes) ==
  {p \in DOMAIN nodes : \A q \in Steps(p) : IsItem(q) \/ ConfiguredKey(config, q)}

\* The texts of a path, "{}" without any.
GetDisplayNames(config, path) ==
  UNION {c.display : c \in {d \in DisplayableClaims(config) : IsPathEqual(d.path, path)}}

\* Without texts of its own an array takes those of its items, and every
\* other attribute the name of its key; an item has no name.
LocalizedName(config, nodes, path) ==
  LET own   == GetDisplayNames(config, Pattern(path))
      items == GetDisplayNames(config, Append(Pattern(path), AnyItem))
  IN  IF IsItem(path) THEN {}
      ELSE IF own # {} THEN own
      ELSE IF nodes[path] = "array" /\ items # {} THEN items
      ELSE {Last(path)}

\* The parsed credential: the name of each shown node.  An attribute that is
\* not in the configuration is shown under its key, and its value as it is
\* (the nodes within have no names), when asked for.
ParseCredentialSdJwt(config, nodes, context) ==
  IF ~context.ignoreMissing /\ MissingRoots(config, nodes) # {}
  THEN [error |-> Failure("IoWalletError"), claims |-> <<>>]
  ELSE LET processed == ProcessLevel(config, nodes)
           shown     == IF context.includeUndefined THEN DOMAIN nodes ELSE processed
       IN  [error  |-> NoError,
            claims |-> [p \in shown |->
              IF p \in processed THEN LocalizedName(config, nodes, p)
              ELSE IF Steps(p) \subseteq processed \cup {p} THEN {Last(p)}
              ELSE {}]]

\* An element of an mdoc is named by its namespace and its identifier, and
\* its configuration has one claim for it; {} is the absence of all claims.
AttrDefinitions(config) == {SubSeq(c.path, 1, 2) : c \in DisplayableClaims(config)}
AttrNames(config, attribute) ==
  UNION {c.display : c \in {d \in DisplayableClaims(config) : SubSeq(d.path, 1, 2) = attribute}}

ParseCredentialMDoc(config, nodes, context) ==
  LET attributes == AttrDefinitions(config)
      defined    == attributes \cap DOMAIN nodes
      shown      == IF context.includeUndefined THEN DOMAIN nodes ELSE defined
  IN  IF \/ config.claims = {} \/ DOMAIN nodes = {}
         \/ ~context.ignoreMissing /\ attributes \ DOMAIN nodes # {}
      THEN [error |-> Failure("IoWalletError"), claims |-> <<>>]
      ELSE [error  |-> NoError,
            claims |-> [p \in shown |-> IF p \in defined THEN AttrNames(config, p) ELSE {p[2]}]]

(* Verification *)

\* The signature, with the dates of the JWT, by a key of the issuer.
SdJwtInstanceVerifier(document, issuerKeys) ==
  issuerKeys # {} /\ document.signer \in issuerKeys /\ ~document.expired

VerifyX509Chain(document, root) ==
  IF document.x5c = root THEN NoError ELSE Failure("X509ValidationError")

IsBound(document, holderKey) == document.holder = holderKey

VerifyCredentialSdJwt(document, issuerKeys, holderKey) ==
  IF SdJwtInstanceVerifier(document, issuerKeys) /\ IsBound(document, holderKey)
  THEN NoError ELSE Failure("IoWalletError")

\* The leaf of a chain up to the root certificate verifies the signature of
\* an mdoc; its dates are not compared with the clock.
VerifyMdoc(document, root) ==
  IF document.x5c = "none" THEN Failure("MissingX509CertsError")
  ELSE IF document.signer = "leaf" \/ VerifyX509Chain(document, root) # NoError
  THEN VerifyX509Chain(document, root)
  ELSE Failure("Error")

VerifyCredentialMDoc(document, root, holderKey) ==
  IF VerifyMdoc(document, root) # NoError \/ IsBound(document, holderKey)
  THEN VerifyMdoc(document, root) ELSE Failure("IoWalletError")

Rejected(error) == [error |-> error, claims |-> <<>>]

\* The chain of an SD-JWT is verified when asked for; "exp" is mandatory,
\* and looked for after the claims.
VerifyAndParseCredentialSdJwt(config, issuerKeys, document, context, root) ==
  LET verified == VerifyCredentialSdJwt(document, issuerKeys, context.holderKey)
      chain    == IF root = "none" THEN Failure("IoWalletError")
                  ELSE IF document.x5c = "none" THEN Failure("MissingX509CertsError")
                  ELSE VerifyX509Chain(document, root)
      parsed   == ParseCredentialSdJwt(config, document.nodes, context)
  IN  IF verified # NoError THEN Rejected(verified)
      ELSE IF context.validateChain = "yes" /\ chain # NoError THEN Rejected(chain)
      ELSE IF parsed.error # NoError \/ document.exp THEN parsed
      ELSE Rejected(Failure("IoWalletError"))

VerifyAndParseCredentialMDoc(config, document, context, root) ==
  LET verified == VerifyCredentialMDoc(document, root, context.holderKey)
  IN  IF root = "none" THEN Rejected(Failure("IoWalletError"))
      ELSE IF verified # NoError THEN Rejected(verified)
      ELSE ParseCredentialMDoc(config, document.nodes, context)

\* The format is that of the configuration.  In 1.0.0 an SD-JWT is verified
\* without the root certificate, in 1.3.3 with its chain unless told not to.
VerifyAndParseCredentialV1_0(config, issuerKeys, document, context, root) ==
  CASE config.format = "dc+sd-jwt" ->
         VerifyAndParseCredentialSdJwt(config, issuerKeys, document, context, "none")
    [] config.format = "mso_mdoc" ->
         VerifyAndParseCredentialMDoc(config, document, context, root)
    [] OTHER -> Rejected(Failure("IoWalletError"))

VerifyAndParseCredentialV1_3(config, issuerKeys, document, context, root) ==
  CASE config.format = "dc+sd-jwt" ->
         VerifyAndParseCredentialSdJwt(config, issuerKeys, document,
           [context EXCEPT !.validateChain = IF @ = "unset" THEN "yes" ELSE @], root)
    [] config.format = "mso_mdoc" ->
         VerifyAndParseCredentialMDoc(config, document, context, root)
    [] OTHER -> Rejected(Failure("IoWalletError"))
=============================================================================
