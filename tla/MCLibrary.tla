------------------------------ MODULE MCLibrary ------------------------------
(***************************************************************************)
(* Instances of the machines of the library for TLC.                       *)
(***************************************************************************)
EXTENDS Library, TLC

CONSTANTS pid, eaa, licence, part,                   \* configuration ids; a fragment of one
          issuerKey, name, address, street, cars, model, space,  \* keys of claims
          rp1, rp2, age, tag1, tag2,                 \* relying parties, credentials
          ministry, agency, uri1, uri2, title, label, \* the catalogue
          i1, i2, s1, s2, s3                         \* issuers and servers of offers

(* Issuance *)

MCIncludes == {<<i, i>> : i \in ConfigIds} \cup {<<eaa, part>>}
MCFormatOf == pid :> "dc+sd-jwt" @@ eaa :> "dc+sd-jwt" @@ licence :> "mso_mdoc"
MCRequests == {{pid}, {eaa}, {licence}, {part}, {pid, eaa}}
Detail(id, identifiers) == [configuration |-> id, identifiers |-> identifiers]
MCGrants == {{}, {Detail(pid, {"u1"})}, {Detail(eaa, {"u1"}), Detail(licence, {"u2"})},
             {Detail(part, {"u1"})}}
MCQueries == {{}, {"code", "state"}, {"code"}, {"error"}, {"challenge_info"},
              {"code", "state", "error"}}

\* Claims at the root, nested in an object, nested in the items of an array;
\* with a claim for the parent and without.
Claim(path, display) == [path |-> path, display |-> display]
MCConfiguredClaims ==
  [f \in {"dc+sd-jwt", "mso_mdoc"} |->
     IF f = "mso_mdoc"
     THEN {{}, {Claim(<<space, name>>, {"n"}), Claim(<<space, cars, model>>, {"c"})}}
     ELSE {{Claim(<<name>>, {"n"}), Claim(<<cars>>, {})},
           {Claim(<<name>>, {"n"}), Claim(<<address, street>>, {"s"}),
            Claim(<<cars, AnyItem, model>>, {"m"})},
           {Claim(<<address>>, {"a"}), Claim(<<address, street>>, {"s"}),
            Claim(<<cars, AnyItem>>, {"i"})}}]

Leaves(paths) == [p \in paths |-> "value"]
Trees ==
  {Leaves({<<name>>}),
   Leaves({<<name>>, <<address, street>>, <<address, model>>, <<cars, 0, model>>, <<cars, 0, name>>})
     @@ <<address>> :> "object" @@ <<cars>> :> "array" @@ <<cars, 0>> :> "object",
   Leaves({<<name>>, <<address>>, <<cars, 0>>}) @@ <<cars>> :> "array"}
Elements ==
  {<<>>, Leaves({<<space, name>>}),
   Leaves({<<space, name>>, <<space, cars>>, <<space, address>>})}

MCIssuedDocuments ==
  [f \in {"dc+sd-jwt", "mso_mdoc"} |->
     IF f = "mso_mdoc"
     THEN [signer : {"leaf", "other"}, holder : {"holder", "other"}, expired : {FALSE},
           exp : {TRUE}, x5c : {"none", "root", "other"}, nodes : Elements]
     ELSE [signer : {issuerKey, "other"}, holder : {"holder", "other"}, expired : BOOLEAN,
           exp : BOOLEAN, x5c : {"none", "root", "other"}, nodes : Trees]]

(* Presentation: the keys of both parties have the same kids, and a request
   object may be signed by one party for the other *)

PartyKey(party, kid, use) == [party |-> party, kid |-> kid, use |-> use]
MCKeysOf == [p \in Parties |-> {PartyKey(p, "k1", "sig"), PartyKey(p, "k2", "enc")}]
MCRequestObjects ==
  [client : Parties, iss : Parties, signer : {PartyKey(p, "k1", "sig") : p \in Parties},
   state : {"s1", "s2"}, uri : {rp1}, wellFormed : BOOLEAN, metadata : {{}}]
  \cup [client : Parties, iss : {rp1}, signer : {PartyKey(p, "k1", "sig") : p \in Parties},
        state : {"s1"}, uri : Parties, wellFormed : {TRUE}, metadata : {MCKeysOf[p] : p \in Parties}]

Held(vct, claims, keyTag) == [vct |-> vct, claims |-> claims, keyTag |-> keyTag]
Asked(vct, claims) == [vct |-> vct, claims |-> claims]
MCHeldCredentials ==
  {<<Held(pid, {name, age}, tag1), Held(eaa, {name}, tag2)>>,
   <<Held(eaa, {age}, tag1), Held(eaa, {name}, tag2)>>}
MCAskedCredentials == {<<Asked(pid, {name})>>, <<Asked(eaa, {age}), Asked(eaa, {name})>>}

(* Catalogue: the second publication has a credential more *)

Publication(credentials, entities, schemas) ==
  [credential_catalog |-> [credentials  |-> credentials,
                           localization |-> Localization(uri1, {"it"})],
   authentic_sources  |-> [entities     |-> entities,
                           localization |-> Localization(uri2, {"it"})],
   schema_registry    |-> [schemas |-> schemas],
   taxonomy           |-> [localization |-> Localization("none", {})]]
MCPublications ==
  <<Publication({DigitalCredential(pid, {ministry})}, {ministry}, {Schema(pid, "dc+sd-jwt")}),
    Publication({DigitalCredential(pid, {}), DigitalCredential(licence, {agency})}, {agency},
                {Schema(pid, "dc+sd-jwt"), Schema(pid, "mso_mdoc"), Schema(licence, "mso_mdoc")})>>
MCBundles == uri1 :> [it |-> title :> "a" @@ label :> "a"] @@ uri2 :> [it |-> title :> "b"]

(* Offers: the first issuer advertises no server, the second one two *)

MCOffers ==
  [issuer : {i1, i2}, ids : {{}, {eaa}}, server : {"none", s1, s3},
   grant : {"authorization_code", "pre-authorized_code"}]
MCMetadata ==
  [i \in {i1, i2} |-> IF i = i1 THEN [own |-> s1, advertised |-> {}]
                               ELSE [own |-> s2, advertised |-> {s1, s2}]]
=============================================================================
